---- MODULE Spec2Model ----
(***************************************************************************)
(* CatanBench: the decision agent and its reply parser                     *)
(* (core/llm_player.py), the tournament orchestrator                       *)
(* (tournament/manager.py) and its real-time subclasses                    *)
(* (tournament/realtime_manager.py, tournament/simple_realtime_manager.py),*)
(* the ranking code of the competition script (competition_tournament.py), *)
(* the state extractor (core/game_state.py), the board mapper              *)
(* (core/axial_mapper.py) and the move describer (core/action_parser.py)   *)
(* as state machines.                                                      *)
(*                                                                         *)
(* Python list indices are 0-based; sequences here are 1-based, so the     *)
(* move at Python index i is playable_actions[i + 1].                      *)
(***************************************************************************)
EXTENDS Integers, Sequences, FiniteSets, TLC

(***************************************************************************)
(* Bounds of the model.                                                    *)
(***************************************************************************)
MaxLen == 2          \* longest legal-move list handed to decide
MaxRetries == 2      \* largest max_retries given to the constructor
MaxDecisions == 2    \* decide calls made on one player
MaxElapsed == 1      \* largest elapsed time of one decision, in clock ticks
MaxResets == 2       \* reset_state calls on one player
MaxCalls == 3        \* decide and reset_state calls on one player, together
MaxPlayers == 5      \* largest roster
MaxGamesPerMatchup == 2  \* largest games_per_matchup
MaxPlanned == 5      \* most games one tournament plans
MaxEloGames == 1     \* most games given to calculate_elo_ratings
MaxCards == 1        \* most cards of one kind in a hand
MaxHiddenPoints == 1 \* most victory points a player holds unrevealed
MaxTiles == 2        \* longest tile list given to register_tiles
MaxRepeats == 3      \* register_tiles calls in a row with one tile list
MaxMoves == 2        \* longest move list given to describe_actions
MaxCoord == 5        \* largest absolute value of an axial coordinate
MaxReplyLen == 4     \* most tokens of a backend reply

(***************************************************************************)
(* Section 1.  LLMPlayer (core/llm_player.py)                              *)
(***************************************************************************)
VARIABLES
    llm_pc,            \* where the player is: "idle", "query", "returned", "raised"
    max_retries,       \* self.max_retries
    stats,             \* self.stats
    playable_actions,  \* argument of the decide call in progress
    attempt,           \* loop variable of _query_llm_with_retry
    queries,           \* calls of llm_client.query made by the decide call in progress
    reply,             \* what the last backend query of this call produced
    only_raises,       \* every backend query of this call has raised so far
    selected,          \* the move decide returned
    calls,             \* decide calls made so far
    resets,            \* reset_state calls made so far
    game_stats,        \* the dictionary the last reset_state returned, as it reads now
    stats_id,          \* identity of the dictionary object self.stats refers to
    game_stats_id      \* identity of the dictionary object the last reset_state returned

llm_vars == <<llm_pc, max_retries, stats, playable_actions, attempt, queries,
              reply, only_raises, selected, calls, resets, game_stats, stats_id,
              game_stats_id>>

ActionTypes == {"ROLL", "END_TURN", "BUILD_ROAD"}
Moves == [action_type : ActionTypes]
NoMove == [action_type |-> "NONE"]
Absent == 0 - 1
MoveLists == UNION {[1..n -> Moves] : n \in 0..MaxLen}

\* A backend query followed by _parse_llm_response either raises or yields an
\* integer action_index.
NoReply == [kind |-> "none", action_index |-> 0]
RaisedReply == [kind |-> "raise", action_index |-> 0]
IndexReplies == [kind : {"index"}, action_index : (0 - 1)..(MaxLen + 1)]
Replies == {RaisedReply} \cup IndexReplies

\* avg_decision_time is kept as the quotient num / den the code computes.
ZeroAvg == [num |-> 0, den |-> 1]

InitialStats ==
    [total_decisions |-> 0, successful_decisions |-> 0, failed_decisions |-> 0,
     avg_decision_time |-> ZeroAvg, total_decision_time |-> 0,
     retry_count |-> 0, fallback_count |-> 0]

IsShortcutAnyLength(actions) ==
    /\ Len(actions) >= 1
    /\ actions[1].action_type \in {"ROLL", "END_TURN"}

IsShortcut(actions) ==
    /\ Len(actions) = 1
    /\ actions[1].action_type \in {"ROLL", "END_TURN"}

ValidIndexNoLowerBound(action_index, n) == action_index < n

\* _query_llm_with_retry, line 209: the range check on the parsed index.
ValidIndex(action_index, n) ==
    /\ 0 <= action_index
    /\ action_index < n

\* Python list indexing, line 210: a negative index counts from the end, an
\* index outside -n .. n-1 raises IndexError.
PyInRange(actions, i) == (0 - Len(actions)) <= i /\ i < Len(actions)
PyGet(actions, i) == IF i < 0 THEN actions[Len(actions) + i + 1] ELSE actions[i + 1]

LoopContinuesOneMore(i, n) == i <= n

\* _query_llm_with_retry, line 196: `for attempt in range(self.max_retries)`
\* runs its body for attempt = 0 .. max_retries - 1.
LoopContinues(i, n) == i < n

\* One iteration of the try block, lines 198-215: the move it returns, or
\* the fact that it raised (all exceptions are caught at line 217).
AttemptOutcome(r, actions) ==
    IF /\ r.kind = "index"
       /\ ValidIndex(r.action_index, Len(actions))
       /\ PyInRange(actions, r.action_index)
    THEN [ok |-> TRUE, move |-> PyGet(actions, r.action_index)]
    ELSE [ok |-> FALSE, move |-> NoMove]

_update_stats(s, decision_time, success) ==
    LET t == s.total_decision_time + decision_time
        s1 == [s EXCEPT !.total_decision_time = t,
                        !.avg_decision_time = [num |-> t, den |-> s.total_decisions]]
    IN  IF success
        THEN [s1 EXCEPT !.successful_decisions = @ + 1]
        ELSE [s1 EXCEPT !.failed_decisions = @ + 1]

_fallback_action_last(s, actions) ==
    [stats  |-> [s EXCEPT !.fallback_count = @ + 1],
     raises |-> actions = <<>>,
     move   |-> IF actions = <<>> THEN NoMove ELSE actions[Len(actions)]]

_fallback_action_silent(s, actions) ==
    [stats  |-> [s EXCEPT !.fallback_count = @ + 1],
     raises |-> FALSE,
     move   |-> IF actions = <<>> THEN NoMove ELSE actions[1]]

\* _fallback_action: counts the fallback, then raises on an empty list or
\* returns the first move.
_fallback_action(s, actions) ==
    [stats  |-> [s EXCEPT !.fallback_count = @ + 1],
     raises |-> actions = <<>>,
     move   |-> IF actions = <<>> THEN NoMove ELSE actions[1]]

\* The except branch of decide: _update_stats(success=False), then the fallback.
ExceptBranch(s, actions, decision_time) ==
    LET fb == _fallback_action(_update_stats(s, decision_time, FALSE), actions)
    IN  /\ stats' = fb.stats
        /\ selected' = fb.move
        /\ llm_pc' = IF fb.raises THEN "raised" ELSE "returned"

\* The counters are updated in place (self.stats[...] += 1), so a dictionary
\* handed out earlier shows the update exactly when it is the same object.
SeenThrough(new_stats) == IF game_stats_id = stats_id THEN new_stats ELSE game_stats

LLMInit ==
    /\ llm_pc = "idle"
    /\ max_retries \in 0..MaxRetries
    /\ stats = InitialStats
    /\ playable_actions = <<>>
    /\ attempt = 0
    /\ queries = 0
    /\ reply = NoReply
    /\ only_raises = TRUE
    /\ selected = NoMove
    /\ calls = 0
    /\ resets = 0
    /\ game_stats = InitialStats
    /\ stats_id = 0
    /\ game_stats_id = Absent

DecideEntry(actions) ==
    /\ llm_pc = "idle"
    /\ calls < MaxDecisions
    /\ calls + resets < MaxCalls
    /\ calls' = calls + 1
    /\ playable_actions' = actions
    /\ queries' = 0
    /\ reply' = NoReply
    /\ only_raises' = TRUE
    /\ attempt' = 0

\* decide, lines 96-102: one forced ROLL or END_TURN is returned at once.
DecideShortcut ==
    \E actions \in MoveLists :
        /\ DecideEntry(actions)
        /\ IsShortcut(actions)
        /\ stats' = [stats EXCEPT !.total_decisions = @ + 1]
        /\ selected' = actions[1]
        /\ llm_pc' = "returned"
        /\ game_stats' = SeenThrough(stats')
        /\ UNCHANGED <<max_retries, resets, stats_id, game_stats_id>>

\* decide, lines 104-120: state extraction, action description and prompt
\* succeed and the retry loop is entered; with max_retries = 0 the loop body
\* never runs and line 225 raises into the except branch.
DecideQuery ==
    \E actions \in MoveLists, decision_time \in 1..MaxElapsed :
        /\ DecideEntry(actions)
        /\ ~IsShortcut(actions)
        /\ LET s == [stats EXCEPT !.total_decisions = @ + 1]
           IN  IF ~LoopContinues(0, max_retries)
               THEN ExceptBranch(s, actions, decision_time)
               ELSE /\ stats' = s
                    /\ selected' = NoMove
                    /\ llm_pc' = "query"
        /\ game_stats' = SeenThrough(stats')
        /\ UNCHANGED <<max_retries, resets, stats_id, game_stats_id>>

\* decide, lines 104-115 raise (extract_state, describe_actions or the prompt
\* builder): the except branch runs without any backend query.
DecidePrepareRaises ==
    \E actions \in MoveLists, decision_time \in 1..MaxElapsed :
        /\ DecideEntry(actions)
        /\ ~IsShortcut(actions)
        /\ ExceptBranch([stats EXCEPT !.total_decisions = @ + 1], actions, decision_time)
        /\ game_stats' = SeenThrough(stats')
        /\ UNCHANGED <<max_retries, resets, stats_id, game_stats_id>>

\* One iteration of the loop of _query_llm_with_retry whose reply names a
\* valid index: the move is returned and decide records a success.
QuerySucceeds ==
    \E r \in Replies, decision_time \in 1..MaxElapsed :
        /\ llm_pc = "query"
        /\ LoopContinues(attempt, max_retries)
        /\ AttemptOutcome(r, playable_actions).ok
        /\ queries' = queries + 1
        /\ reply' = r
        /\ only_raises' = FALSE
        /\ selected' = AttemptOutcome(r, playable_actions).move
        /\ stats' = _update_stats(stats, decision_time, TRUE)
        /\ llm_pc' = "returned"
        /\ game_stats' = SeenThrough(stats')
        /\ UNCHANGED <<max_retries, playable_actions, attempt, calls, resets, stats_id,
                       game_stats_id>>

\* One iteration that fails (the query or the parser raises, or the index is
\* out of range): a retry is recorded; after the last iteration line 225
\* raises and the except branch of decide runs.
QueryFails ==
    \E r \in Replies, decision_time \in 1..MaxElapsed :
        /\ llm_pc = "query"
        /\ LoopContinues(attempt, max_retries)
        /\ ~AttemptOutcome(r, playable_actions).ok
        /\ queries' = queries + 1
        /\ reply' = r
        /\ only_raises' = (only_raises /\ r = RaisedReply)
        /\ attempt' = attempt + 1
        /\ LET s == [stats EXCEPT !.retry_count = @ + 1]
           IN  IF LoopContinues(attempt + 1, max_retries)
               THEN /\ stats' = s
                    /\ UNCHANGED <<selected, llm_pc>>
               ELSE ExceptBranch(s, playable_actions, decision_time)
        /\ game_stats' = SeenThrough(stats')
        /\ UNCHANGED <<max_retries, playable_actions, calls, resets, stats_id, game_stats_id>>

\* The caller takes the result (or the exception) of decide.
DecideDone ==
    /\ llm_pc \in {"returned", "raised"}
    /\ llm_pc' = "idle"
    /\ playable_actions' = <<>>
    /\ attempt' = 0
    /\ queries' = 0
    /\ reply' = NoReply
    /\ only_raises' = TRUE
    /\ selected' = NoMove
    /\ UNCHANGED <<max_retries, stats, calls, resets, game_stats, stats_id, game_stats_id>>

reset_state_in_place(s, id, n) ==
    [returned |-> s, returned_id |-> id, stats |-> s, stats_id |-> id]

\* reset_state, lines 365-375, as the n-th object-creating call on a player
\* whose counters s are held by object id: self.stats.copy() is a new
\* dictionary with the entries of s, the literal of line 366 is another new
\* dictionary, to which self.stats is rebound; the copy is returned.
reset_state(s, id, n) ==
    [returned |-> s, returned_id |-> 2 * n + 1,
     stats |-> InitialStats, stats_id |-> 2 * n + 2]

ResetState ==
    /\ llm_pc = "idle"
    /\ resets < MaxResets
    /\ calls + resets < MaxCalls
    /\ resets' = resets + 1
    /\ LET r == reset_state(stats, stats_id, resets)
       IN  /\ game_stats' = r.returned
           /\ game_stats_id' = r.returned_id
           /\ stats' = r.stats
           /\ stats_id' = r.stats_id
    /\ UNCHANGED <<llm_pc, max_retries, playable_actions, attempt, queries, reply,
                   only_raises, selected, calls>>

(***************************************************************************)
(* Section 2.  TournamentManager (tournament/manager.py)                   *)
(***************************************************************************)
VARIABLES
    t_pc,              \* "idle", "playing", "done", "rejected" or "aborted"
    players,           \* self.players: the roster names in insertion order
    self_results,      \* self.results
    games_per_matchup, \* argument of run_tournament
    matchups,          \* local of _run_round_robin_tournament
    matchup_idx,       \* outer loop variable (0-based)
    game_num,          \* inner loop variable (0-based)
    game_results,      \* local list of _run_round_robin_tournament
    engine_log,        \* what the rules engine reported in each game played
    tournament_results \* the dictionary run_tournament returns

t_vars == <<t_pc, players, self_results, games_per_matchup, matchups, matchup_idx, game_num,
            game_results, engine_log, tournament_results>>

\* Roster names used by the scripts of the repository.
RosterNames ==
    <<"GPT-5", "Claude-Sonnet-4", "Gemini-2.5-Pro", "Kimi-K2", "MockGPT", "MockClaude">>
RandomNames == <<"Random_0", "Random_1", "Random_2", "Random_3">>
Colors == <<"RED", "BLUE", "WHITE", "ORANGE">>
ColorSet == {Colors[i] : i \in 1..Len(Colors)}

\* Python values whose type the code or a consumer inspects.
None == [type |-> "NoneType"]
PyStr(str) == [type |-> "str", items |-> <<str>>]
PyList(list) == [type |-> "list", items |-> list]
EmptyDict == [k \in {} |-> 0]

Range(seq) == {seq[i] : i \in 1..Len(seq)}
Put(dict, key, value) ==
    [k \in DOMAIN dict \cup {key} |-> IF k = key THEN value ELSE dict[k]]
Get(dict, key, default) == IF key \in DOMAIN dict THEN dict[key] ELSE default

RECURSIVE SumValues(_)
SumValues(dict) ==
    IF DOMAIN dict = {} THEN 0
    ELSE LET k == CHOOSE x \in DOMAIN dict : TRUE
         IN  dict[k] + SumValues([x \in DOMAIN dict \ {k} |-> dict[x]])

MaxValue(dict) == CHOOSE v \in {dict[k] : k \in DOMAIN dict} : \A w \in {dict[k] : k \in DOMAIN dict} : w <= v

\* itertools.combinations(player_names, 4): the increasing position tuples in
\* lexicographic order.
ComboSet(n) == {c \in [1..4 -> 1..n] : \A i \in 1..3 : c[i] < c[i + 1]}
LexLess(a, b) ==
    \E i \in 1..4 : (\A j \in 1..(i - 1) : a[j] = b[j]) /\ a[i] < b[i]
Combinations4(names) ==
    LET S == ComboSet(Len(names))
    IN  [k \in 1..Cardinality(S) |->
            LET c == CHOOSE c \in S : Cardinality({d \in S : LexLess(d, c)}) = k - 1
            IN  [i \in 1..4 |-> names[c[i]]]]

MatchupsUnpadded(player_names) ==
    IF Len(player_names) > 4 THEN Combinations4(player_names) ELSE <<player_names>>

\* _run_round_robin_tournament, lines 160-175
Matchups(player_names) ==
    IF Len(player_names) = 4 THEN <<player_names>>
    ELSE IF Len(player_names) > 4 THEN Combinations4(player_names)
    ELSE <<player_names \o SubSeq(RandomNames, 1, 4 - Len(player_names))>>

\* What one game can do inside the try block of _play_single_game: raise, or
\* play to the end with the winner game.play() returns (None at the turn
\* limit) and the scores _extract_final_scores reads (empty when it fails).
ScoresWithLeaders(leaders, high, low) ==
    [c \in ColorSet |-> IF c \in leaders THEN high ELSE low]
TurnLimitLeaders ==
    {{"ORANGE"}, {"RED", "BLUE"}, {"BLUE", "WHITE", "ORANGE"}, ColorSet}
DefinitiveWinners == {"RED", "WHITE"}
EngineRaised == [kind |-> "raises", winner_color |-> None, final_scores |-> EmptyDict]
EnginePlayed ==
    {[kind |-> "played", winner_color |-> PyStr(c),
      final_scores |-> ScoresWithLeaders({c}, 10, 3)] : c \in DefinitiveWinners}
    \cup {[kind |-> "played", winner_color |-> None,
           final_scores |-> ScoresWithLeaders(l, 5, 3)] : l \in TurnLimitLeaders}
    \cup {[kind |-> "played", winner_color |-> None, final_scores |-> EmptyDict],
          [kind |-> "played", winner_color |-> PyStr("BLUE"), final_scores |-> EmptyDict]}

\* a configuration with the color shuffle switched on
TournamentConfigShuffling == [shuffle_colors |-> TRUE]
\* self.config of __init__, lines 54-59: of its entries the code changes
\* games_per_matchup only (the variable games_per_matchup)
TournamentConfig == [shuffle_colors |-> FALSE]

\* the orders random.shuffle can leave a list in
Shuffles(list) ==
    {[i \in 1..Len(list) |-> list[order[i]]] :
        order \in {f \in [1..Len(list) -> 1..Len(list)] :
                      \A i, j \in 1..Len(list) : i # j => f[i] # f[j]}}

\* _play_single_game, lines 233-235: the list colors of one game
SeatColors ==
    IF TournamentConfig.shuffle_colors THEN Shuffles(Colors) ELSE {Colors}

\* _play_single_game, lines 237-268
PlayerInfo(player_names, colors) ==
    [i \in 1..Len(player_names) |->
        [name  |-> player_names[i],
         type  |-> IF player_names[i] \in Range(RandomNames) THEN "random" ELSE "llm",
         color |-> colors[i]]]

\* _play_single_game, lines 289-308
WinnerInfos(player_info, outcome) ==
    IF outcome.winner_color # None
    THEN LET hits == SelectSeq(player_info,
                               LAMBDA info : PyStr(info.color) = outcome.winner_color)
         IN  IF hits = <<>> THEN <<>> ELSE <<hits[1]>>
    ELSE IF DOMAIN outcome.final_scores # {}
    THEN LET max_vp == MaxValue(outcome.final_scores)
         IN  SelectSeq(player_info,
                       LAMBDA info : /\ info.color \in DOMAIN outcome.final_scores
                                     /\ outcome.final_scores[info.color] = max_vp)
    ELSE <<>>

WinnerNameAlwaysList(winner_names) == PyList(winner_names)

\* line 311
WinnerName(winner_names) ==
    IF winner_names = <<>> THEN PyList(winner_names)
    ELSE IF Len(winner_names) = 1 THEN PyStr(winner_names[1])
    ELSE PyList(winner_names)

\* line 312
IsTie(winner_names) == Len(winner_names) > 1

GameId(m_idx, g_num) == <<"M", m_idx, "G", g_num>>

\* _play_single_game, lines 270-399: the result of a game that played to the end
CompletedResult(player_names, colors, m_idx, g_num, outcome) ==
    LET player_info == PlayerInfo(player_names, colors)
        winners == WinnerInfos(player_info, outcome)
        winner_names == [i \in 1..Len(winners) |-> winners[i].name]
        winner_color_values == [i \in 1..Len(winners) |-> winners[i].color]
    IN  [game_id |-> GameId(m_idx, g_num),
         matchup_index |-> m_idx,
         game_number |-> g_num,
         players |-> [i \in 1..Len(player_info) |->
                        [name |-> player_info[i].name,
                         type |-> player_info[i].type,
                         color |-> player_info[i].color,
                         final_vp |-> Get(outcome.final_scores, player_info[i].color, 0)]],
         winner |-> IF winner_names # <<>>
                    THEN [type |-> "dict",
                          name |-> WinnerName(winner_names),
                          color |-> IF Len(winner_color_values) = 1
                                    THEN PyStr(winner_color_values[1])
                                    ELSE PyList(winner_color_values),
                          is_tie |-> IsTie(winner_names),
                          vp_score |-> IF DOMAIN outcome.final_scores # {}
                                       THEN MaxValue(outcome.final_scores) ELSE 0]
                    ELSE None,
         detailed_stats |-> [type |-> "dict", final_scores |-> outcome.final_scores],
         error |-> None]

\* _play_single_game, lines 401-414: the result of a game whose try block raised
FailedResult(player_names, colors, m_idx, g_num) ==
    LET player_info == PlayerInfo(player_names, colors)
    IN  [game_id |-> GameId(m_idx, g_num),
         matchup_index |-> m_idx,
         game_number |-> g_num,
         players |-> [i \in 1..Len(player_info) |->
                        [name |-> player_info[i].name,
                         type |-> player_info[i].type,
                         color |-> player_info[i].color,
                         final_vp |-> Absent]],
         winner |-> None,
         detailed_stats |-> None,
         error |-> PyStr("exception")]

\* Wins are kept in twelfths of a win, so that the shares 1/1 .. 1/4 the code
\* adds as floats are exact.
WinUnit == 12

TieShareWhole(tied_names) == WinUnit

\* 1.0 / len(winner_name), lines 449, 497 and 542
TieShare(tied_names) == WinUnit \div Len(tied_names)

RECURSIVE AddTiedWins(_, _, _, _)
AddTiedWins(wins, tied_names, i, only_known) ==
    IF i > Len(tied_names) THEN wins
    ELSE LET p == tied_names[i]
             w == IF only_known /\ p \notin DOMAIN wins THEN wins
                  ELSE Put(wins, p, Get(wins, p, 0) + TieShare(tied_names))
         IN  AddTiedWins(w, tied_names, i + 1, only_known)

\* _analyze_tournament_results, lines 437-452: one iteration of the loop
WinCountsStep(wins, result) ==
    IF result.winner = None THEN wins
    ELSE LET winner_name == result.winner.name
             is_tie == result.winner.is_tie
         IN  IF is_tie /\ winner_name.type = "list"
             THEN AddTiedWins(wins, winner_name.items, 1, FALSE)
             ELSE IF ~is_tie /\ winner_name.type = "str"
             THEN Put(wins, winner_name.items[1], Get(wins, winner_name.items[1], 0) + WinUnit)
             ELSE wins

RECURSIVE WinCounts(_)
WinCounts(results) ==
    IF results = <<>> THEN EmptyDict
    ELSE WinCountsStep(WinCounts(SubSeq(results, 1, Len(results) - 1)),
                       results[Len(results)])

\* _analyze_tournament_results, lines 430-467 (durations are not modelled)
_analyze_tournament_results(results) ==
    LET successful == Len(SelectSeq(results, LAMBDA g : g.winner # None))
    IN  [total_games |-> Len(results),
         successful_games |-> successful,
         failed_games |-> Len(results) - successful,
         win_counts |-> WinCounts(results),
         ties |-> Len(SelectSeq(results,
                     LAMBDA g : /\ g.winner # None
                                /\ g.winner.is_tie
                                /\ g.winner.name.type = "list"))]

\* _calculate_player_statistics, lines 474-500: one player of one result
PlayerStatsStep(player_stats, result, info) ==
    LET name == info.name
        old == Get(player_stats, name, [games_played |-> 0, wins |-> 0])
        gain == IF result.winner = None THEN 0
                ELSE LET winner_name == result.winner.name
                         is_tie == result.winner.is_tie
                     IN  IF /\ is_tie
                            /\ winner_name.type = "list"
                            /\ name \in Range(winner_name.items)
                         THEN TieShare(winner_name.items)
                         ELSE IF ~is_tie /\ winner_name = PyStr(name)
                         THEN WinUnit
                         ELSE 0
    IN  Put(player_stats, name,
            [games_played |-> old.games_played + 1, wins |-> old.wins + gain])

RECURSIVE PlayerStatsOfGame(_, _, _)
PlayerStatsOfGame(player_stats, result, i) ==
    IF i > Len(result.players) THEN player_stats
    ELSE PlayerStatsOfGame(PlayerStatsStep(player_stats, result, result.players[i]),
                           result, i + 1)

RECURSIVE PlayerTotals(_)
PlayerTotals(results) ==
    IF results = <<>> THEN EmptyDict
    ELSE PlayerStatsOfGame(PlayerTotals(SubSeq(results, 1, Len(results) - 1)),
                           results[Len(results)], 1)

\* _calculate_player_statistics, lines 469-513 (latency fields are not
\* modelled); win_rate is the quotient wins / games_played.
_calculate_player_statistics(results) ==
    LET totals == PlayerTotals(results)
    IN  [name \in DOMAIN totals |->
            [games_played |-> totals[name].games_played,
             wins |-> totals[name].wins,
             win_rate |-> IF totals[name].games_played > 0
                          THEN [num |-> totals[name].wins,
                                den |-> totals[name].games_played * WinUnit]
                          ELSE [num |-> 0, den |-> 1]]]

\* _analyze_matchups, lines 519-546: one iteration of the loop.  The key
\* "_vs_".join(sorted(players)) is the set of the names.
MatchupStep(matchup_data, result) ==
    LET names == {result.players[i].name : i \in 1..Len(result.players)}
        old == Get(matchup_data, names,
                   [games |-> 0, wins |-> [n \in names |-> 0]])
        wins == IF result.winner = None THEN old.wins
                ELSE LET winner_name == result.winner.name
                         is_tie == result.winner.is_tie
                     IN  IF is_tie /\ winner_name.type = "list"
                         THEN AddTiedWins(old.wins, winner_name.items, 1, TRUE)
                         ELSE IF /\ ~is_tie
                                 /\ winner_name.type = "str"
                                 /\ winner_name.items[1] \in DOMAIN old.wins
                         THEN Put(old.wins, winner_name.items[1],
                                  old.wins[winner_name.items[1]] + WinUnit)
                         ELSE old.wins
    IN  Put(matchup_data, names, [games |-> old.games + 1, wins |-> wins])

RECURSIVE _analyze_matchups(_)
_analyze_matchups(results) ==
    IF results = <<>> THEN EmptyDict
    ELSE MatchupStep(_analyze_matchups(SubSeq(results, 1, Len(results) - 1)),
                     results[Len(results)])

\* The number of games _run_round_robin_tournament plans, lines 164-175
TotalGames(player_names, g) == Len(Matchups(player_names)) * g

TournamentInit ==
    /\ t_pc = "idle"
    /\ \E n \in 0..MaxPlayers :
          /\ n <= Len(RosterNames)
          /\ players = SubSeq(RosterNames, 1, n)
    /\ self_results = <<>>
    /\ games_per_matchup = 0
    /\ matchups = <<>>
    /\ matchup_idx = 0
    /\ game_num = 0
    /\ game_results = <<>>
    /\ engine_log = <<>>
    /\ tournament_results = None

\* run_tournament, lines 104-105
RunTournamentTooFewPlayers ==
    /\ t_pc = "idle"
    /\ Len(players) < 2
    /\ t_pc' = "rejected"
    /\ UNCHANGED <<players, self_results, games_per_matchup, matchups, matchup_idx, game_num,
                   game_results, engine_log, tournament_results>>

\* run_tournament up to the first game, lines 104-184
RunTournament ==
    \E g \in 1..MaxGamesPerMatchup :
        /\ t_pc = "idle"
        /\ Len(players) >= 2
        /\ TotalGames(players, g) <= MaxPlanned
        /\ games_per_matchup' = g
        /\ matchups' = Matchups(players)
        /\ matchup_idx' = 0
        /\ game_num' = 0
        /\ game_results' = <<>>
        /\ t_pc' = "playing"
        /\ UNCHANGED <<players, self_results, engine_log, tournament_results>>

\* run_tournament, lines 123-131 (name, id and duration are not modelled)
TournamentInfo ==
    [games_per_matchup |-> games_per_matchup,
     total_games |-> Len(self_results),
     players |-> players]

\* The names of the players of a result list, in the order in which
\* _calculate_player_statistics inserts them into player_stats.
RECURSIVE StatsOrder(_, _)
StatsOrder(list, seen) ==
    IF list = <<>> THEN seen
    ELSE LET names == [i \in 1..Len(list[1].players) |-> list[1].players[i].name]
             new == SelectSeq(names, LAMBDA n : n \notin Range(seen))
         IN  StatsOrder(Tail(list), seen \o new)

\* the sort key (win_rate, wins) of get_leaderboard: a ranks before b
RanksBefore(a, b) ==
    \/ a.win_rate.num * b.win_rate.den > b.win_rate.num * a.win_rate.den
    \/ /\ a.win_rate.num * b.win_rate.den = b.win_rate.num * a.win_rate.den
       /\ a.wins > b.wins

\* list.sort(key=..., reverse=True): a stable sort, greatest key first
RECURSIVE SortedLeaderboard(_)
SortedLeaderboard(list) ==
    IF list = <<>> THEN <<>>
    ELSE LET rest == SortedLeaderboard(SubSeq(list, 1, Len(list) - 1))
             last == list[Len(list)]
             front == SelectSeq(rest, LAMBDA e : ~RanksBefore(last, e))
             back == SelectSeq(rest, LAMBDA e : RanksBefore(last, e))
         IN  front \o <<last>> \o back

\* get_leaderboard, lines 594-615
get_leaderboard(list) ==
    IF list = <<>> THEN <<>>
    ELSE LET stats_of == _calculate_player_statistics(list)
             order == StatsOrder(list, <<>>)
         IN  SortedLeaderboard([i \in 1..Len(order) |->
                                   [player |-> order[i],
                                    wins |-> stats_of[order[i]].wins,
                                    games |-> stats_of[order[i]].games_played,
                                    win_rate |-> stats_of[order[i]].win_rate]])

\* The loops of lines 181-196 after one more result, and, after the last
\* game, the analysis of lines 201-209 and the return of run_tournament.
AfterGame(result) ==
    LET all == Append(game_results, result)
    IN  /\ game_results' = all
        /\ IF game_num + 1 < games_per_matchup
           THEN /\ game_num' = game_num + 1
                /\ UNCHANGED <<matchup_idx, t_pc, tournament_results>>
           ELSE IF matchup_idx + 1 < Len(matchups)
           THEN /\ matchup_idx' = matchup_idx + 1
                /\ game_num' = 0
                /\ UNCHANGED <<t_pc, tournament_results>>
           ELSE /\ t_pc' = "done"
                /\ tournament_results' =
                      [type |-> "dict",
                       games |-> all,
                       analysis |-> _analyze_tournament_results(all),
                       player_stats |-> _calculate_player_statistics(all),
                       matchup_analysis |-> _analyze_matchups(all),
                       tournament_info |-> TournamentInfo]
                /\ UNCHANGED <<matchup_idx, game_num>>

\* _play_single_game: the players are built and the game plays to its end
PlayGameCompleted ==
    \E outcome \in EnginePlayed, colors \in SeatColors :
        /\ t_pc = "playing"
        /\ engine_log' = Append(engine_log, outcome)
        /\ AfterGame(CompletedResult(matchups[matchup_idx + 1], colors, matchup_idx,
                                     game_num, outcome))
        /\ UNCHANGED <<players, self_results, games_per_matchup, matchups>>

\* _play_single_game: the try block of lines 272-399 raises (Game(players),
\* game.play() with a raising player, or the bookkeeping after it)
PlayGameRaises ==
    /\ t_pc = "playing"
    /\ engine_log' = Append(engine_log, EngineRaised)
    /\ \E colors \in SeatColors :
          AfterGame(FailedResult(matchups[matchup_idx + 1], colors, matchup_idx,
                                 game_num))
    /\ UNCHANGED <<players, self_results, games_per_matchup, matchups>>

\* _play_single_game: building a player at lines 241-268 raises; these lines
\* are outside the try block, nothing in _run_round_robin_tournament catches
\* the exception and run_tournament re-raises it at line 143.
PlayGameConstructionRaises ==
    /\ t_pc = "playing"
    /\ \E i \in 1..Len(matchups[matchup_idx + 1]) :
          PlayerInfo(matchups[matchup_idx + 1], Colors)[i].type = "llm"
    /\ t_pc' = "aborted"
    /\ UNCHANGED <<players, self_results, games_per_matchup, matchups, matchup_idx, game_num,
                   game_results, engine_log, tournament_results>>

(***************************************************************************)
(* Section 3.  The competition script (competition_tournament.py)          *)
(***************************************************************************)
VARIABLES
    elo_pc,            \* calculate_elo_ratings: "input", "returned" or "raised"
    elo_results,       \* its argument, a dictionary with the key "games"
    elo_ratings,       \* the dictionary it returns
    c_pc,              \* main: "start", "returned", "running", "failed", "ranked"
    final_rankings     \* what main has computed once the tournament returned

elo_vars == <<elo_pc, elo_results, elo_ratings>>
c_vars == <<c_pc, final_rankings>>

\* The four names main registers and calculate_elo_ratings rates.
CompetitionRoster == SubSeq(RosterNames, 1, 4)

\* Floats are modelled in fixed point: ratings in thousandths of a rating
\* point, scores and powers in ten-thousandths.
EloUnit == 1000
FixedOne == 10000
InitialRating == 1500
K == 32

\* e ** (x / FixedOne), by its Taylor series; term is x ** (n-1) / (n-1)!
RECURSIVE ExpSeries(_, _, _, _)
ExpSeries(x, term, n, acc) ==
    IF n > 14 THEN acc
    ELSE LET next == (term * x) \div (n * FixedOne)
         IN  ExpSeries(x, next, n + 1, acc + next)

\* 10 ** (diff / 400), line 281; diff in thousandths of a point, and
\* ln(10) / 400 = 0.0057565
Pow10Over400(diff) ==
    LET x == ((diff \div 10) * 57565) \div 100000
    IN  ExpSeries(x, FixedOne, 1, FixedOne)

\* line 281
Expected(rating1, rating2) ==
    (FixedOne * FixedOne) \div (FixedOne + Pow10Over400(rating2 - rating1))

\* lines 284-292
Actual(winner_name, is_tie, player1) ==
    IF is_tie /\ winner_name.type = "list" /\ player1 \in Range(winner_name.items)
    THEN FixedOne \div 2
    ELSE IF ~is_tie /\ winner_name = PyStr(player1)
    THEN FixedOne
    ELSE 0

\* lines 279-295: one ordered pair; ratings is updated in place, so the next
\* pair reads the rating this one wrote.
EloPair(ratings, winner_name, is_tie, player1, player2) ==
    Put(ratings, player1,
        ratings[player1]
        + (K * (Actual(winner_name, is_tie, player1)
                - Expected(ratings[player1], ratings[player2])) * EloUnit) \div FixedOne)

\* lines 277-295: the ordered pairs (i, j) of one game, numbered i * n + j
RECURSIVE EloPairs(_, _, _)
EloPairs(ratings, game, p) ==
    LET n == Len(game.players)
        i == p \div n
        j == p % n
    IN  IF p >= n * n THEN ratings
        ELSE IF i = j THEN EloPairs(ratings, game, p + 1)
        ELSE EloPairs(EloPair(ratings, game.winner.name, game.winner.is_tie,
                              game.players[i + 1].name, game.players[j + 1].name),
                      game, p + 1)

\* ratings[player] of line 281 raises KeyError for a name that is not rated
EloKeyError(ratings, game) ==
    /\ Len(game.players) >= 2
    /\ \E i \in 1..Len(game.players) : game.players[i].name \notin DOMAIN ratings

EloRaised == [type |-> "KeyError"]

\* lines 265-295: the loop over results["games"]
RECURSIVE EloGames(_, _, _)
EloGames(ratings, games, g) ==
    IF g > Len(games) THEN ratings
    ELSE IF games[g].winner = None THEN EloGames(ratings, games, g + 1)
    ELSE IF EloKeyError(ratings, games[g]) THEN EloRaised
    ELSE EloGames(EloPairs(ratings, games[g], 0), games, g + 1)

\* calculate_elo_ratings, lines 253-295
calculate_elo_ratings(results) ==
    EloGames([name \in Range(CompetitionRoster) |-> InitialRating * EloUnit],
             results.games, 1)

\* The games calculate_elo_ratings is given: two rated players in either
\* order, the four rated players, or a roster padded with random players;
\* the winner entry has the shapes _play_single_game produces.
EloPlayerLists ==
    {names \in {<<CompetitionRoster[a], CompetitionRoster[b]>> : a \in 1..4, b \in 1..4} :
        names[1] # names[2]}
    \cup {CompetitionRoster, Matchups(SubSeq(CompetitionRoster, 1, 2))[1]}

EloWinners(names) ==
    {None}
    \cup {[type |-> "dict", name |-> PyStr(names[i]), is_tie |-> FALSE] :
             i \in 1..Len(names)}
    \cup {[type |-> "dict", name |-> PyList(SubSeq(names, 1, k)), is_tie |-> TRUE] :
             k \in {2, Len(names)}}

EloGameInputs ==
    UNION {{[players |-> [i \in 1..Len(names) |-> [name |-> names[i]]],
             winner |-> w] : w \in EloWinners(names)} : names \in EloPlayerLists}

RECURSIVE SeqsUpTo(_, _)
SeqsUpTo(S, n) ==
    IF n = 0 THEN {<<>>}
    ELSE LET shorter == SeqsUpTo(S, n - 1)
         IN  shorter \cup {Append(q, x) : q \in shorter, x \in S}

EloInit ==
    /\ elo_pc = "input"
    /\ elo_results \in {[games |-> games] : games \in SeqsUpTo(EloGameInputs, MaxEloGames)}
    /\ elo_ratings = None

\* calculate_elo_ratings returns its ratings
CalculateEloReturns ==
    /\ elo_pc = "input"
    /\ calculate_elo_ratings(elo_results) # EloRaised
    /\ elo_ratings' = calculate_elo_ratings(elo_results)
    /\ elo_pc' = "returned"
    /\ UNCHANGED elo_results

\* calculate_elo_ratings raises KeyError at line 281
CalculateEloRaises ==
    /\ elo_pc = "input"
    /\ calculate_elo_ratings(elo_results) = EloRaised
    /\ elo_pc' = "raised"
    /\ UNCHANGED <<elo_results, elo_ratings>>

\* main, lines 427-433: the scores of one game keyed by player name, in the
\* order of the game's final_scores (the colours in seating order)
PlayerScores(game) ==
    LET seated == SelectSeq(game.players,
                      LAMBDA p : p.color \in DOMAIN game.detailed_stats.final_scores)
    IN  [i \in 1..Len(seated) |->
            [name |-> seated[i].name,
             score |-> game.detailed_stats.final_scores[seated[i].color]]]

\* main, lines 425-433
AllFinalScores(games) ==
    LET scored == SelectSeq(games, LAMBDA game : game.detailed_stats # None)
    IN  [i \in 1..Len(scored) |-> PlayerScores(scored[i])]

\* main, lines 438-445: one iteration of the loop
WinsByPlayerStep(wins, game) ==
    IF game.winner = None THEN wins
    ELSE LET winner_name == game.winner.name
         IN  IF winner_name.type = "list"
             THEN LET tied == Range(winner_name.items)
                  IN  [n \in DOMAIN wins \cup tied |->
                          Get(wins, n, 0) + (IF n \in tied THEN 1 ELSE 0)]
             ELSE Put(wins, winner_name.items[1], Get(wins, winner_name.items[1], 0) + 1)

\* main, lines 436-446
RECURSIVE WinsByPlayer(_)
WinsByPlayer(games) ==
    IF games = <<>> THEN EmptyDict
    ELSE WinsByPlayerStep(WinsByPlayer(SubSeq(games, 1, Len(games) - 1)),
                          games[Len(games)])

\* main, lines 470-478: one player of one game
RankingStatsStep(player_stats, game, player_info) ==
    LET name == player_info.name
    IN  IF name \notin DOMAIN player_stats THEN player_stats
        ELSE LET won == /\ game.winner # None
                        /\ \/ /\ game.winner.name.type = "list"
                              /\ name \in Range(game.winner.name.items)
                           \/ game.winner.name = PyStr(name)
             IN  Put(player_stats, name,
                     [games_played |-> player_stats[name].games_played + 1,
                      wins |-> player_stats[name].wins + (IF won THEN 1 ELSE 0)])

RECURSIVE RankingStatsOfGame(_, _, _)
RankingStatsOfGame(player_stats, game, i) ==
    IF i > Len(game.players) THEN player_stats
    ELSE RankingStatsOfGame(RankingStatsStep(player_stats, game, game.players[i]),
                            game, i + 1)

\* main, lines 461-478
RECURSIVE RankingTotals(_)
RankingTotals(games) ==
    IF games = <<>>
    THEN [name \in Range(CompetitionRoster) |-> [games_played |-> 0, wins |-> 0]]
    ELSE RankingStatsOfGame(RankingTotals(SubSeq(games, 1, Len(games) - 1)),
                            games[Len(games)], 1)

\* main, lines 459-483; win_rate is the quotient wins / games_played
RankingPlayerStats(games) ==
    LET totals == RankingTotals(games)
    IN  [name \in DOMAIN totals |->
            [games_played |-> totals[name].games_played,
             wins |-> totals[name].wins,
             win_rate |-> IF totals[name].games_played > 0
                          THEN [num |-> totals[name].wins,
                                den |-> totals[name].games_played]
                          ELSE [num |-> 0, den |-> 1]]]

\* calculate_competence_score, lines 319-321: 1 + the number of entries the
\* stable descending sort puts before the player
Position(game_scores, player) ==
    LET at == CHOOSE i \in 1..Len(game_scores) : game_scores[i].name = player
    IN  1 + Cardinality({i \in 1..Len(game_scores) :
                            \/ game_scores[i].score > game_scores[at].score
                            \/ /\ game_scores[i].score = game_scores[at].score
                               /\ i < at})

RECURSIVE SumSeq(_)
SumSeq(seq) == IF seq = <<>> THEN 0 ELSE seq[1] + SumSeq(Tail(seq))

Min(a, b) == IF a <= b THEN a ELSE b
Max(a, b) == IF a >= b THEN a ELSE b

\* Competence scores are kept in 1200ths, which makes 0.4 * wins / games,
\* 0.3 * (5 - sum / n) / 4 and 0.3 * sum / (10 * n) exact for up to 3 games.
CompetenceUnit == 1200

\* lines 316-323: the games with a score of the player, and player_positions
PlayerGames(final_scores_data, player) ==
    SelectSeq(final_scores_data,
              LAMBDA game_scores :
                  \E i \in 1..Len(game_scores) : game_scores[i].name = player)
PlayerPositions(final_scores_data, player) ==
    [g \in 1..Len(PlayerGames(final_scores_data, player)) |->
        Position(PlayerGames(final_scores_data, player)[g], player)]

\* lines 325 and 329: max(0, (5 - avg_position) / 4), the position component
\* before its weight, in 1200ths
PositionComponent(positions) ==
    IF positions = <<>> THEN Max(0, (CompetenceUnit * (5 - 4)) \div 4)
    ELSE Max(0, (CompetenceUnit * (5 * Len(positions) - SumSeq(positions)))
                    \div (4 * Len(positions)))

\* calculate_competence_score, lines 305-336: the score of one player
CompetenceOf(player_stat, final_scores_data, player) ==
    IF player_stat.games_played = 0 THEN 0
    ELSE LET mine == PlayerGames(final_scores_data, player)
             n == Len(mine)
             positions == PlayerPositions(final_scores_data, player)
             vps == [g \in 1..n |->
                        mine[g][CHOOSE i \in 1..Len(mine[g]) : mine[g][i].name = player].score]
             win_rate_score ==
                 (4 * CompetenceUnit * player_stat.win_rate.num) \div (10 * player_stat.win_rate.den)
             position_score == (3 * PositionComponent(positions)) \div 10
             vp_score ==
                 IF n = 0 THEN 0
                 ELSE (3 * CompetenceUnit * Min(10 * n, SumSeq(vps))) \div (100 * n)
         IN  win_rate_score + position_score + vp_score

\* calculate_competence_score, lines 298-338
calculate_competence_score(player_stats, final_scores_data) ==
    [player \in DOMAIN player_stats |->
        CompetenceOf(player_stats[player], final_scores_data, player)]

\* main, line 496: sorted(..., reverse=True) is stable, so equal scores keep
\* the order of the dictionary
RankedPlayers(scores, names) ==
    LET place(i) == 1 + Cardinality({j \in 1..Len(names) :
                                        \/ scores[names[j]] > scores[names[i]]
                                        \/ /\ scores[names[j]] = scores[names[i]]
                                           /\ j < i})
    IN  [r \in 1..Len(names) |-> names[CHOOSE i \in 1..Len(names) : place(i) = r]]

CompetitionGamesPerMatchup == 3

CompetitionInit ==
    /\ c_pc = "start"
    /\ final_rankings = None
    /\ TournamentInit
    /\ Len(players) = 0

\* main, lines 349-412: an API key is missing, a client cannot be built or
\* the user does not confirm
MainReturnsEarly ==
    /\ c_pc = "start"
    /\ c_pc' = "returned"
    /\ UNCHANGED <<final_rankings, t_vars>>

\* main, lines 364-424, into run_tournament up to the first game
MainRunTournament ==
    /\ c_pc = "start"
    /\ t_pc = "idle"
    /\ players' = CompetitionRoster
    /\ games_per_matchup' = CompetitionGamesPerMatchup
    /\ matchups' = Matchups(CompetitionRoster)
    /\ matchup_idx' = 0
    /\ game_num' = 0
    /\ game_results' = <<>>
    /\ t_pc' = "playing"
    /\ c_pc' = "running"
    /\ UNCHANGED <<self_results, engine_log, tournament_results, final_rankings>>

\* one game of the tournament main runs
MainGameCompleted ==
    /\ c_pc = "running"
    /\ PlayGameCompleted
    /\ UNCHANGED c_vars

MainGameRaises ==
    /\ c_pc = "running"
    /\ PlayGameRaises
    /\ UNCHANGED c_vars

\* main, lines 451-453: run_tournament raised
MainTournamentFails ==
    /\ c_pc = "running"
    /\ PlayGameConstructionRaises
    /\ c_pc' = "failed"
    /\ UNCHANGED final_rankings

\* main, lines 425-496, once run_tournament has returned
FinalRankings ==
    /\ c_pc = "running"
    /\ t_pc = "done"
    /\ LET results == tournament_results
           all_final_scores == AllFinalScores(results.games)
           player_stats == RankingPlayerStats(results.games)
           ratings == calculate_elo_ratings(results)
           competence_scores == calculate_competence_score(player_stats, all_final_scores)
       IN  /\ final_rankings' =
                 [type |-> "dict",
                  wins_by_player |-> WinsByPlayer(results.games),
                  player_stats |-> player_stats,
                  elo_ratings |-> ratings,
                  competence_scores |-> competence_scores,
                  ranked_players |-> RankedPlayers(competence_scores, CompetitionRoster)]
           /\ c_pc' = "ranked"
    /\ UNCHANGED t_vars

(***************************************************************************)
(* Section 4.  GameStateExtractor (core/game_state.py)                     *)
(***************************************************************************)
VARIABLES
    gs_pc,             \* extract_state: "input", "returned" or "raised"
    gs_input,          \* two engine states and the colour of the deciding player
    gs_output          \* the snapshot extract_state builds for each of them

gs_vars == <<gs_pc, gs_input, gs_output>>

\* catanatron.models.enums
RESOURCES == <<"WOOD", "BRICK", "SHEEP", "WHEAT", "ORE">>
DEVELOPMENT_CARDS ==
    <<"KNIGHT", "YEAR_OF_PLENTY", "MONOPOLY", "ROAD_BUILDING", "VICTORY_POINT">>

RECURSIVE SumSeqOf(_, _)
SumSeqOf(keys, dict) ==
    IF keys = <<>> THEN 0 ELSE dict[Head(keys)] + SumSeqOf(Tail(keys), dict)

\* The hands of the model: cards of the first two kinds only.
Hands(kinds) ==
    {[k \in Range(kinds) |-> IF k = kinds[1] THEN a ELSE IF k = kinds[2] THEN b ELSE 0] :
        a \in 0..MaxCards, b \in 0..MaxCards}

FirstBuildings == [settlements |-> <<0, 7>>, cities |-> <<>>, roads |-> <<<<0, 1>>>>]

\* One player's entries of the engine's player_state.
PlayerEntry(vp, public_vp, resources, in_hand) ==
    [VICTORY_POINTS |-> vp,
     PUBLIC_VICTORY_POINTS |-> public_vp,
     resources |-> resources,
     in_hand |-> in_hand,
     played |-> [card \in Range(DEVELOPMENT_CARDS) |-> 0],
     has_rolled |-> FALSE,
     buildings |-> FirstBuildings]

\* The public victory points of the player that is varied; the actual points
\* are these and up to MaxHiddenPoints more (victory-point cards in hand).
PublicPoints == {2, 4, 9}

\* The engine states of the model.  player_state is read both as
\* player_state[player_key] (a dictionary per player) and as
\* player_state[player_key + "_VICTORY_POINTS"]; layout says whether the
\* engine provides both forms, only the flat keys or only the dictionaries.
EngineState(layout, prompt, varied, entry) ==
    [layout |-> layout,
     num_turns |-> 12,
     current_color |-> "RED",
     current_prompt |-> prompt,
     player_state |->
        [c \in ColorSet |->
            IF c = varied THEN entry
            ELSE PlayerEntry(2, 2,
                     [r \in Range(RESOURCES) |-> IF r = "WOOD" THEN 4 ELSE 0],
                     [card \in Range(DEVELOPMENT_CARDS) |-> 0])],
     resource_freqdeck |-> [r \in Range(RESOURCES) |-> 15],
     development_cards_left |-> 20,
     dice_roll |-> None,
     robber_coordinate |-> <<0, 0, 0>>]

\* catanatron.state_functions.player_num_resource_cards
player_num_resource_cards(state, color) ==
    SumSeqOf(RESOURCES, state.player_state[color].resources)

\* catanatron.state_functions.player_resource_freqdeck_contains
FreqdeckContains(state, color, cost) ==
    \A r \in Range(RESOURCES) : state.player_state[color].resources[r] >= cost[r]
Cost(wood, brick, sheep, wheat, ore) ==
    [r \in Range(RESOURCES) |->
        IF r = "WOOD" THEN wood ELSE IF r = "BRICK" THEN brick
        ELSE IF r = "SHEEP" THEN sheep ELSE IF r = "WHEAT" THEN wheat ELSE ore]

\* _check_affordability, lines 203-220
_check_affordability(state, color) ==
    [settlement |-> FreqdeckContains(state, color, Cost(1, 1, 1, 1, 0)),
     city |-> FreqdeckContains(state, color, Cost(0, 0, 0, 2, 3)),
     road |-> FreqdeckContains(state, color, Cost(1, 1, 0, 0, 0)),
     development_card |-> FreqdeckContains(state, color, Cost(0, 0, 1, 1, 1))]

\* _extract_buildings, lines 188-201
_extract_buildings(state, color) ==
    LET buildings == state.player_state[color].buildings
    IN  [settlements |-> buildings.settlements,
         cities |-> buildings.cities,
         roads |-> buildings.roads,
         settlements_available |-> 5 - Len(buildings.settlements),
         cities_available |-> 4 - Len(buildings.cities),
         roads_available |-> 15 - Len(buildings.roads)]

\* An opponent's entry that carries the hand by kind.
_extract_player_state_all_detailed(state, color, detailed) ==
    LET player_state == state.player_state[color]
    IN  [color |-> color,
         detailed |-> detailed,
         victory_points |-> player_state.VICTORY_POINTS,
         public_victory_points |-> player_state.PUBLIC_VICTORY_POINTS,
         resource_cards_count |-> player_num_resource_cards(state, color),
         development_cards_count |-> SumSeqOf(DEVELOPMENT_CARDS, player_state.in_hand),
         has_rolled_this_turn |-> player_state.has_rolled,
         buildings |-> _extract_buildings(state, color),
         resources |-> player_state.resources,
         development_cards |->
            [card \in Range(DEVELOPMENT_CARDS) |->
                [in_hand |-> player_state.in_hand[card],
                 played |-> player_state.played[card]]],
         can_afford |-> IF detailed THEN _check_affordability(state, color) ELSE None]

\* _extract_player_state, lines 113-147; the keys that base_info.update adds
\* only for detailed=True are None otherwise
_extract_player_state(state, color, detailed) ==
    LET player_state == state.player_state[color]
    IN  [color |-> color,
         detailed |-> detailed,
         victory_points |-> player_state.VICTORY_POINTS,
         public_victory_points |-> player_state.PUBLIC_VICTORY_POINTS,
         resource_cards_count |-> player_num_resource_cards(state, color),
         development_cards_count |-> SumSeqOf(DEVELOPMENT_CARDS, player_state.in_hand),
         has_rolled_this_turn |-> player_state.has_rolled,
         buildings |-> _extract_buildings(state, color),
         resources |-> IF detailed THEN player_state.resources ELSE None,
         development_cards |->
            IF detailed
            THEN [card \in Range(DEVELOPMENT_CARDS) |->
                     [in_hand |-> player_state.in_hand[card],
                      played |-> player_state.played[card]]]
            ELSE None,
         can_afford |-> IF detailed THEN _check_affordability(state, color) ELSE None]

\* _extract_opponents_state, lines 149-159
_extract_opponents_state(state, current_player_color) ==
    LET others == SelectSeq(Colors, LAMBDA color : color # current_player_color)
    IN  [i \in 1..Len(others) |-> _extract_player_state(state, others[i], FALSE)]

\* _get_winning_player, lines 326-335
_get_winning_player(state) ==
    LET over == SelectSeq(Colors, LAMBDA color : state.player_state[color].VICTORY_POINTS >= 10)
    IN  IF over = <<>> THEN None ELSE PyStr(over[1])

\* _determine_game_phase, lines 337-360
_determine_game_phase(state) ==
    IF state.current_prompt \in {"BUILD_INITIAL_SETTLEMENT", "BUILD_INITIAL_ROAD"}
    THEN "setup"
    ELSE LET max_vp == MaxValue([color \in ColorSet |->
                                    state.player_state[color].VICTORY_POINTS])
         IN  IF max_vp < 5 THEN "early" ELSE IF max_vp < 8 THEN "mid" ELSE "late"

\* _extract_game_info, lines 76-98
_extract_game_info(state) ==
    [turn_number |-> state.num_turns,
     current_player_color |-> state.current_color,
     winning_player |-> _get_winning_player(state),
     game_phase |-> _determine_game_phase(state)]

\* _extract_board_state, lines 100-111; ports and tiles are those of the
\* board, which no engine state of the model changes
_extract_board_state(state) ==
    [robber_position |-> state.robber_coordinate,
     ports |-> <<>>,
     tiles |-> <<>>,
     available_building_spots |->
        [settlement_spots |-> <<>>, city_upgrade_spots |-> <<>>, road_spots |-> <<>>],
     longest_road_owner |-> None,
     largest_army_owner |-> None]

\* _extract_resources_info, lines 160-169
_extract_resources_info(state) ==
    [resource_bank |-> state.resource_freqdeck,
     development_cards_left |-> state.development_cards_left,
     dice_roll_this_turn |-> state.dice_roll]

\* _identify_trade_opportunities, lines 262-279
_identify_trade_opportunities(state, color) ==
    LET offered == SelectSeq(RESOURCES,
                       LAMBDA resource : state.player_state[color].resources[resource] >= 4)
    IN  [i \in 1..Len(offered) |->
            [type |-> "maritime", offer |-> offered[i], ratio |-> "4:1", available |-> TRUE]]

\* _suggest_building_priorities, lines 281-294
_suggest_building_priorities(state, color) ==
    LET current_vp == state.player_state[color].VICTORY_POINTS
    IN  IF current_vp < 5 THEN <<"settlements", "roads">>
        ELSE IF current_vp < 8 THEN <<"cities", "development_cards">>
        ELSE <<"development_cards", "cities">>

\* _assess_threats, lines 296-312
_assess_threats(state, color) ==
    LET current_vp == state.player_state[color].VICTORY_POINTS
        threatening ==
            SelectSeq(Colors,
                LAMBDA opponent_color :
                    /\ opponent_color # color
                    /\ state.player_state[opponent_color].VICTORY_POINTS >= current_vp + 2)
    IN  [i \in 1..Len(threatening) |->
            LET opponent_vp == state.player_state[threatening[i]].VICTORY_POINTS
            IN  [player |-> threatening[i],
                 threat_level |-> IF opponent_vp >= 8 THEN "high" ELSE "medium",
                 victory_points |-> opponent_vp]]

\* _analyze_victory_paths, lines 314-324
_analyze_victory_paths(state, color) ==
    LET current_vp == state.player_state[color].VICTORY_POINTS
        vp_needed == 10 - current_vp
    IN  [current_victory_points |-> current_vp,
         points_needed |-> vp_needed,
         turns_estimated |-> Max(1, vp_needed \div 2),
         recommended_strategy |-> IF vp_needed <= 3 THEN "aggressive" ELSE "building"]

\* _extract_strategic_context, lines 171-178
_extract_strategic_context(state, current_player_color) ==
    [trade_opportunities |-> _identify_trade_opportunities(state, current_player_color),
     building_priorities |-> _suggest_building_priorities(state, current_player_color),
     threat_assessment |-> _assess_threats(state, current_player_color),
     victory_analysis |-> _analyze_victory_paths(state, current_player_color)]

\* _determine_turn_phase, lines 362-374
_determine_turn_phase(state) ==
    IF state.current_prompt = "PLAY_TURN"
    THEN IF ~state.player_state[state.current_color].has_rolled
         THEN "pre_roll" ELSE "post_roll"
    ELSE IF state.current_prompt = "DISCARD" THEN "discard"
    ELSE IF state.current_prompt = "MOVE_ROBBER" THEN "move_robber"
    ELSE IF state.current_prompt = "BUILD_INITIAL_SETTLEMENT" THEN "build_initial_settlement"
    ELSE IF state.current_prompt = "BUILD_INITIAL_ROAD" THEN "build_initial_road"
    ELSE "decide_trade"

\* _get_expected_action_type, lines 376-387
_get_expected_action_type(state) ==
    IF state.current_prompt = "BUILD_INITIAL_SETTLEMENT" THEN PyStr("BUILD_SETTLEMENT")
    ELSE IF state.current_prompt = "BUILD_INITIAL_ROAD" THEN PyStr("BUILD_ROAD")
    ELSE IF state.current_prompt = "PLAY_TURN" THEN PyStr("ROLL_OR_ACTION")
    ELSE IF state.current_prompt = "DISCARD" THEN PyStr("DISCARD")
    ELSE IF state.current_prompt = "MOVE_ROBBER" THEN PyStr("MOVE_ROBBER")
    ELSE IF state.current_prompt = "DECIDE_TRADE" THEN PyStr("TRADE_DECISION")
    ELSE None

\* _extract_turn_context, lines 180-186
_extract_turn_context(state) ==
    [current_prompt |-> state.current_prompt,
     expecting_action |-> _get_expected_action_type(state),
     turn_phase |-> _determine_turn_phase(state)]

\* extract_state, lines 30-74
extract_state(state, current_player_color) ==
    [game_info |-> _extract_game_info(state),
     board_state |-> _extract_board_state(state),
     current_player |-> _extract_player_state(state, current_player_color, TRUE),
     opponents |-> _extract_opponents_state(state, current_player_color),
     resources_and_cards |-> _extract_resources_info(state),
     strategic_context |-> _extract_strategic_context(state, current_player_color),
     turn_context |-> _extract_turn_context(state)]

\* The entries of the varied player: every hand of the model, public points,
\* and actual points from the public ones up to MaxHiddenPoints more.
VariedEntries ==
    {PlayerEntry(public_vp + hidden, public_vp, resources, in_hand) :
        public_vp \in PublicPoints, hidden \in 0..MaxHiddenPoints,
        resources \in Hands(RESOURCES), in_hand \in Hands(DEVELOPMENT_CARDS)}

Prompts == {"PLAY_TURN", "BUILD_INITIAL_SETTLEMENT"}
Layouts == {"both", "flat", "per_player"}

\* The entries a second engine state gives the varied player: another hand of
\* resources, another hand of development cards, both hands with the two
\* kinds swapped, or other actual victory points.
Swapped(kinds, hand) ==
    [k \in Range(kinds) |->
        IF k = kinds[1] THEN hand[kinds[2]] ELSE IF k = kinds[2] THEN hand[kinds[1]] ELSE 0]
TwinEntries(entry) ==
    {[entry EXCEPT !.resources = resources] : resources \in Hands(RESOURCES)}
    \cup {[entry EXCEPT !.in_hand = in_hand] : in_hand \in Hands(DEVELOPMENT_CARDS)}
    \cup {[entry EXCEPT !.resources = Swapped(RESOURCES, entry.resources),
                        !.in_hand = Swapped(DEVELOPMENT_CARDS, entry.in_hand)]}
    \cup {[entry EXCEPT !.VICTORY_POINTS = entry.PUBLIC_VICTORY_POINTS + hidden] :
             hidden \in 0..MaxHiddenPoints}

\* Two engine states that differ in nothing but the entries of one player,
\* and the deciding player.
GameStateInit ==
    /\ gs_pc = "input"
    /\ gs_output = None
    /\ \E layout \in Layouts, prompt \in Prompts, entry \in VariedEntries,
          deciding \in {"RED", "WHITE"} :
       \E twin_entry \in TwinEntries(entry) :
          /\ layout # "both" => (entry = twin_entry /\ prompt = "PLAY_TURN")
          /\ gs_input = [state |-> EngineState(layout, prompt, "BLUE", entry),
                         twin |-> EngineState(layout, prompt, "BLUE", twin_entry),
                         current_player_color |-> deciding]

\* extract_state returns the snapshot of each of the two states
ExtractStateReturns ==
    /\ gs_pc = "input"
    /\ gs_input.state.layout = "both"
    /\ gs_output' =
          [state |-> extract_state(gs_input.state, gs_input.current_player_color),
           twin |-> extract_state(gs_input.twin, gs_input.current_player_color)]
    /\ gs_pc' = "returned"
    /\ UNCHANGED gs_input

\* state.player_state[key] raises KeyError: at line 332 when the engine has
\* no flat keys, at line 115 when it has no dictionary per player
ExtractStateRaises ==
    /\ gs_pc = "input"
    /\ gs_input.state.layout # "both"
    /\ gs_pc' = "raised"
    /\ UNCHANGED <<gs_input, gs_output>>

(***************************************************************************)
(* Section 5.  HexAxialMapper (core/axial_mapper.py)                       *)
(*                                                                         *)
(* A dict is a sequence of its values in insertion order (tiles by coord,  *)
(* intersections and edges by id); the id f"I{n}" is the string "I" \o     *)
(* ToString(n).  hex_mapper holds the fields of one HexAxialMapper;        *)
(* tiles_data is the argument of the last register_tiles call and          *)
(* hm_repeats counts how many times in a row that argument was given.      *)
(***************************************************************************)
VARIABLES hex_mapper, tiles_data, hm_repeats

hm_vars == <<hex_mapper, tiles_data, hm_repeats>>

HEX_DIRECTIONS ==
    << <<1, 0>>, <<0, 1>>, <<0 - 1, 1>>, <<0 - 1, 0>>, <<0, 0 - 1>>, <<1, 0 - 1>> >>

\* __init__: nothing registered
NewHexAxialMapper ==
    [tiles |-> <<>>, tile_name_to_coord |-> EmptyDict, intersections |-> <<>>,
     edges |-> <<>>, port_intersections |-> EmptyDict,
     action_mappings |-> EmptyDict]

\* a conversion that took y for r
cube_to_axial_xy(cube_coord) == <<cube_coord[1], cube_coord[2]>>
cube_to_axial(cube_coord) ==
    LET x == cube_coord[1]
        z == cube_coord[3]
        q == x
        r == z
    IN  <<q, r>>

axial_to_cube(axial_coord) ==
    LET q == axial_coord[1]
        r == axial_coord[2]
        x == q
        z == r
    IN  <<x, 0 - x - z, z>>

get_neighbors(coord) ==
    [d \in 1..Len(HEX_DIRECTIONS) |->
        <<coord[1] + HEX_DIRECTIONS[d][1], coord[2] + HEX_DIRECTIONS[d][2]>>]

Abs(n) == IF n < 0 THEN 0 - n ELSE n

\* max(abs(q), abs(r), abs(-q-r))
RingDistance(coord) ==
    Max(Max(Abs(coord[1]), Abs(coord[2])), Abs(0 - coord[1] - coord[2]))

\* f"({q},{r})"
CoordNotation(coord) ==
    "(" \o ToString(coord[1]) \o "," \o ToString(coord[2]) \o ")"

\* resource is a string, number is None or a tagged integer
create_tile_name(coord, resource, number) ==
    LET number_text == IF number = None \/ number.value = 0 THEN ""
                       ELSE ToString(number.value)
        desert == resource = "Desert" \/ resource = ""
        direction ==
            IF RingDistance(coord) = 1
            THEN CASE coord = <<1, 0>> -> "E"
                   [] coord = <<0, 1>> -> "SE"
                   [] coord = <<0 - 1, 1>> -> "SW"
                   [] coord = <<0 - 1, 0>> -> "W"
                   [] coord = <<0, 0 - 1>> -> "NW"
                   [] coord = <<1, 0 - 1>> -> "NE"
                   [] OTHER -> CoordNotation(coord)
            ELSE CoordNotation(coord)
    IN  IF coord = <<0, 0>>
        THEN IF desert THEN "CENTER-Desert"
             ELSE "CENTER-" \o resource \o number_text
        ELSE IF desert THEN direction \o "-Desert"
        ELSE IF number_text # "" THEN direction \o "-" \o resource \o number_text
        ELSE direction \o "-" \o resource

\* a dict keyed by coord: position of the key, 0 when absent
TileIndex(tiles, coord) ==
    IF \E t \in 1..Len(tiles) : tiles[t].coord = coord
    THEN CHOOSE t \in 1..Len(tiles) : tiles[t].coord = coord
    ELSE 0

HasTile(tiles, coord) == TileIndex(tiles, coord) # 0

\* self.tiles[axial_coord] = tile_info
SetTile(tiles, tile_info) ==
    IF HasTile(tiles, tile_info.coord)
    THEN [tiles EXCEPT ![TileIndex(tiles, tile_info.coord)] = tile_info]
    ELSE Append(tiles, tile_info)

\* the body of the first loop of register_tiles for one tile_data; a dict
\* without 'coordinate' raises KeyError, which the loop catches and skips
RegisterOneTile(mapper, tile_data) ==
    IF "coordinate" \notin DOMAIN tile_data THEN mapper
    ELSE LET axial_coord == cube_to_axial(tile_data.coordinate)
             given == IF "resource" \in DOMAIN tile_data
                      THEN tile_data.resource ELSE "Desert"
             resource == IF given = "" THEN "Desert" ELSE given
             number == IF "number" \in DOMAIN tile_data
                       THEN [type |-> "int", value |-> tile_data.number]
                       ELSE None
             tile_name == create_tile_name(axial_coord, resource, number)
             tile_info == [coord |-> axial_coord, resource |-> resource,
                           number |-> number, name |-> tile_name,
                           neighbors |-> get_neighbors(axial_coord),
                           intersections |-> <<>>, edges |-> <<>>]
         IN  [mapper EXCEPT
                 !.tiles = SetTile(@, tile_info),
                 !.tile_name_to_coord = Put(@, tile_name, axial_coord)]

RECURSIVE RegisterTilesLoop(_, _)
RegisterTilesLoop(mapper, data) ==
    IF data = <<>> THEN mapper
    ELSE RegisterTilesLoop(RegisterOneTile(mapper, Head(data)), Tail(data))

\* sorted(...) of a list of coordinates: tuples compare lexicographically
CoordLess(a, b) == a[1] < b[1] \/ (a[1] = b[1] /\ a[2] < b[2])

RECURSIVE InsertCoord(_, _)
InsertCoord(sorted, coord) ==
    IF sorted = <<>> THEN <<coord>>
    ELSE IF CoordLess(coord, Head(sorted)) THEN <<coord>> \o sorted
    ELSE <<Head(sorted)>> \o InsertCoord(Tail(sorted), coord)

RECURSIVE SortedCoords(_)
SortedCoords(coords) ==
    IF coords = <<>> THEN <<>>
    ELSE InsertCoord(SortedCoords(Tail(coords)), Head(coords))

CORNER_DIRECTIONS ==
    << <<0, 5>>, <<0, 1>>, <<1, 2>>, <<2, 3>>, <<3, 4>>, <<4, 5>> >>

Neighbor(coord, dir_idx) ==
    <<coord[1] + HEX_DIRECTIONS[dir_idx + 1][1],
      coord[2] + HEX_DIRECTIONS[dir_idx + 1][2]>>

\* a dict keyed by id: self.intersections[key] = info, self.edges[key] = info
SetById(dict, info) ==
    IF \E k \in 1..Len(dict) : dict[k].id = info.id
    THEN [dict EXCEPT ![CHOOSE k \in 1..Len(dict) : dict[k].id = info.id] = info]
    ELSE Append(dict, info)

\* the check of the set generated_intersections
AlreadyGeneratedNever(generated_intersections, corner_tiles_sorted) == FALSE
AlreadyGenerated(generated_intersections, corner_tiles_sorted) ==
    corner_tiles_sorted \in generated_intersections

\* lines 291-315: record one intersection unless its sorted tiles were seen
\* m holds the mapper, the set generated_intersections and intersection_id
NewIntersection(m, corner_tiles, corner_tile_names) ==
    LET corner_tiles_sorted == SortedCoords(corner_tiles)
        intersection_key == "I" \o ToString(m.intersection_id)
        intersection_info ==
            [id |-> intersection_key, tiles |-> corner_tiles,
             tile_names |-> corner_tile_names,
             adjacent_intersections |-> <<>>, connected_edges |-> <<>>]
    IN  IF AlreadyGenerated(m.generated_intersections, corner_tiles_sorted)
        THEN m
        ELSE [mapper |->
                 [m.mapper EXCEPT
                     !.intersections = SetById(@, intersection_info),
                     !.tiles = [t \in 1..Len(@) |->
                         IF @[t].coord \in Range(corner_tiles)
                         THEN [@[t] EXCEPT
                                  !.intersections = Append(@, intersection_key)]
                         ELSE @[t]]],
              generated_intersections |->
                 m.generated_intersections \cup {corner_tiles_sorted},
              intersection_id |-> m.intersection_id + 1]

\* first pass, corner corner_idx (from 0) of the tile at position t
CornerOfTile(m, t, corner_idx) ==
    LET tiles == m.mapper.tiles
        coord == tiles[t].coord
        directions == CORNER_DIRECTIONS[corner_idx + 1]
        present == SelectSeq(directions,
                             LAMBDA dir_idx : HasTile(tiles, Neighbor(coord, dir_idx)))
        corner_tiles ==
            <<coord>> \o [k \in 1..Len(present) |-> Neighbor(coord, present[k])]
        corner_tile_names ==
            [k \in 1..Len(corner_tiles) |->
                tiles[TileIndex(tiles, corner_tiles[k])].name]
    IN  NewIntersection(m, corner_tiles, corner_tile_names)

RECURSIVE FirstPass(_, _)
FirstPass(m, step) ==
    IF step >= 6 * Len(m.mapper.tiles) THEN m
    ELSE FirstPass(CornerOfTile(m, (step \div 6) + 1, step % 6), step + 1)

outer_ring_distance == 2

\* second pass, corner corner_idx of the tile at position t
EdgeCornerOfTile(m, t, corner_idx) ==
    LET tiles == m.mapper.tiles
        coord == tiles[t].coord
        neighbor1_coord == Neighbor(coord, corner_idx)
        neighbor2_coord == Neighbor(coord, (corner_idx + 1) % 6)
        added == NewIntersection(m, <<coord>>, <<tiles[t].name>>)
    IN  IF /\ RingDistance(coord) = outer_ring_distance
           /\ ~HasTile(tiles, neighbor1_coord)
           /\ ~HasTile(tiles, neighbor2_coord)
        THEN IF added = m THEN m
             ELSE [added EXCEPT
                      !.mapper.intersections[Len(added.mapper.intersections)].tile_names =
                          Append(@, "(Port Edge)")]
        ELSE m

RECURSIVE SecondPass(_, _)
SecondPass(m, step) ==
    IF step >= 6 * Len(m.mapper.tiles) THEN m
    ELSE SecondPass(EdgeCornerOfTile(m, (step \div 6) + 1, step % 6), step + 1)

\* the two passes, from the dict and the id counter the method starts with
GenerateIntersections(mapper, intersections, intersection_id) ==
    LET start == [mapper |-> [mapper EXCEPT !.intersections = intersections],
                  generated_intersections |-> {},
                  intersection_id |-> intersection_id]
    IN  SecondPass(FirstPass(start, 0), 0).mapper

\* a method that kept the dict and went on counting from its size
_generate_intersections_accumulating(mapper) ==
    GenerateIntersections(mapper, mapper.intersections, Len(mapper.intersections))
\* self.intersections.clear(); intersection_id = 0
_generate_intersections(mapper) == GenerateIntersections(mapper, <<>>, 0)

\* lines 380-419: the edge between the tile at position t and its neighbour
\* in direction d (from 1); m holds the mapper, processed_edges and edge_id
EdgeOfTile(m, t, d) ==
    LET tiles == m.mapper.tiles
        coord == tiles[t].coord
        neighbor_coord == tiles[t].neighbors[d]
        edge_key == SortedCoords(<<coord, neighbor_coord>>)
        tile1_coord == edge_key[1]
        tile2_coord == edge_key[2]
        tile1_name == tiles[TileIndex(tiles, tile1_coord)].name
        tile2_name == tiles[TileIndex(tiles, tile2_coord)].name
        edge_id_str == "E" \o ToString(m.edge_id)
        intersections == m.mapper.intersections
        connecting ==
            SelectSeq([k \in 1..Len(intersections) |-> k],
                      LAMBDA k : /\ tile1_coord \in Range(intersections[k].tiles)
                                 /\ tile2_coord \in Range(intersections[k].tiles))
        connecting_intersections ==
            [k \in 1..Len(connecting) |-> intersections[connecting[k]].id]
        edge_info == [id |-> edge_id_str,
                      tiles |-> <<tile1_coord, tile2_coord>>,
                      tile_names |-> <<tile1_name, tile2_name>>,
                      intersections |-> connecting_intersections,
                      name |-> tile1_name \o "--" \o tile2_name]
    IN  IF ~HasTile(tiles, neighbor_coord) \/ edge_key \in m.processed_edges
        THEN m
        ELSE [mapper |->
                 [m.mapper EXCEPT
                     !.edges = SetById(@, edge_info),
                     !.tiles = [u \in 1..Len(@) |->
                         IF @[u].coord \in {tile1_coord, tile2_coord}
                         THEN [@[u] EXCEPT !.edges = Append(@, edge_id_str)]
                         ELSE @[u]],
                     !.intersections = [k \in 1..Len(@) |->
                         IF @[k].id \in Range(connecting_intersections)
                         THEN [@[k] EXCEPT
                                  !.connected_edges = Append(@, edge_id_str)]
                         ELSE @[k]]],
              processed_edges |-> m.processed_edges \cup {edge_key},
              edge_id |-> m.edge_id + 1]

RECURSIVE EdgesLoop(_, _)
EdgesLoop(m, step) ==
    IF step >= 6 * Len(m.mapper.tiles) THEN m
    ELSE EdgesLoop(EdgeOfTile(m, (step \div 6) + 1, (step % 6) + 1), step + 1)

\* self.edges.clear(); edge_id = 0
_generate_edges(mapper) ==
    EdgesLoop([mapper |-> [mapper EXCEPT !.edges = <<>>],
               processed_edges |-> {}, edge_id |-> 0], 0).mapper

\* _identify_port_intersections is `pass`
register_tiles(mapper, data) ==
    LET cleared == [mapper EXCEPT !.tiles = <<>>,
                                  !.tile_name_to_coord = EmptyDict]
    IN  _generate_edges(_generate_intersections(RegisterTilesLoop(cleared, data)))

\* The tile dicts given to register_tiles.
TileInputs ==
    {[coordinate |-> <<0, 0, 0>>, resource |-> "WOOD", number |-> 6],
     [coordinate |-> <<1, 0 - 1, 0>>, resource |-> ""],
     [coordinate |-> <<0, 0 - 1, 1>>, resource |-> "BRICK", number |-> 8],
     [coordinate |-> <<2, 0 - 2, 0>>, resource |-> "ORE", number |-> 5],
     [coordinate |-> <<0, 3, 0>>],
     [resource |-> "SHEEP", number |-> 9]}

MapperInit ==
    /\ hex_mapper = NewHexAxialMapper
    /\ tiles_data = <<>>
    /\ hm_repeats = 0

\* register_tiles(data) with a list other than the last one
RegisterTiles ==
    \E data \in SeqsUpTo(TileInputs, MaxTiles) :
        /\ data # tiles_data \/ hm_repeats = 0
        /\ hex_mapper' = register_tiles(hex_mapper, data)
        /\ tiles_data' = data
        /\ hm_repeats' = 1

\* register_tiles(data) with the list of the call before
RegisterTilesAgain ==
    /\ hm_repeats >= 1
    /\ hm_repeats < MaxRepeats
    /\ hex_mapper' = register_tiles(hex_mapper, tiles_data)
    /\ hm_repeats' = hm_repeats + 1
    /\ UNCHANGED tiles_data

(***************************************************************************)
(* Section 6.  ActionParser (core/action_parser.py) on a HexAxialMapper    *)
(*                                                                         *)
(* A description is the sequence of the words, spaces and commas of the    *)
(* string, Text the string itself.  A move is [action_type, value]: action_type is the  *)
(* name of the ActionType member, value a tagged Python value.             *)
(* action_mappings is a dict from index to description; after clear() its  *)
(* insertion order is the ascending order of the keys.                     *)
(* ap_actions is the argument of the last describe_actions call,           *)
(* ap_descriptions what it returned, ap_shorter whether the call before    *)
(* had a longer list.                                                      *)
(***************************************************************************)
VARIABLES ap_actions, ap_descriptions, ap_shorter

ap_vars == <<ap_actions, ap_descriptions, ap_shorter>>

PyInt(n) == [type |-> "int", items |-> <<n>>]
PyTuple(tuple) == [type |-> "tuple", items |-> tuple]

RECURSIVE Text(_)
Text(pieces) == IF pieces = <<>> THEN "" ELSE Head(pieces) \o Text(Tail(pieces))

\* str() of a tuple of ints: "(3,)", "(0, 1)", as words and spaces
FormattedTuple(items) ==
    LET n == Len(items)
    IN  [k \in 1..(2 * n - 1) |->
            IF k % 2 = 0 THEN " "
            ELSE (IF k = 1 THEN "(" ELSE "")
                 \o ToString(items[(k + 1) \div 2])
                 \o (IF k < 2 * n - 1 THEN "," ELSE IF n = 1 THEN ",)" ELSE ")")]

\* f"{value}" of None, an int or a tuple of ints
Formatted(value) ==
    CASE value.type = "NoneType" -> <<"None">>
      [] value.type = "int" -> <<ToString(value.items[1])>>
      [] OTHER -> FormattedTuple(value.items)

\* the words followed by one more piece of text
WithSuffix(words, suffix) == [words EXCEPT ![Len(words)] = @ \o suffix]

\* the words of the members' names, and str.title() of each word
NameWords ==
    [BUILD_SETTLEMENT |-> <<"BUILD", "SETTLEMENT">>,
     BUILD_ROAD |-> <<"BUILD", "ROAD">>,
     BUILD_CITY |-> <<"BUILD", "CITY">>,
     MOVE_ROBBER |-> <<"MOVE", "ROBBER">>,
     ROLL |-> <<"ROLL">>,
     END_TURN |-> <<"END", "TURN">>,
     BUY_DEVELOPMENT_CARD |-> <<"BUY", "DEVELOPMENT", "CARD">>,
     MARITIME_TRADE |-> <<"MARITIME", "TRADE">>,
     DISCARD |-> <<"DISCARD">>,
     PLAY_KNIGHT_CARD |-> <<"PLAY", "KNIGHT", "CARD">>]

Capitalized ==
    [BUILD |-> "Build", SETTLEMENT |-> "Settlement", ROAD |-> "Road",
     CITY |-> "City", MOVE |-> "Move", ROBBER |-> "Robber", ROLL |-> "Roll",
     END |-> "End", TURN |-> "Turn", BUY |-> "Buy",
     DEVELOPMENT |-> "Development", CARD |-> "Card", MARITIME |-> "Maritime",
     TRADE |-> "Trade", DISCARD |-> "Discard", PLAY |-> "Play",
     KNIGHT |-> "Knight"]

\* action_type.name.replace('_', ' ').title()
RECURSIVE TitleWords(_)
TitleWords(words) ==
    IF words = <<>> THEN <<>>
    ELSE IF Len(words) = 1 THEN <<Capitalized[words[1]]>>
    ELSE <<Capitalized[words[1]], " ">> \o TitleWords(Tail(words))

Title(name) == TitleWords(NameWords[name])

IdIndex(dict, id) ==
    IF \E k \in 1..Len(dict) : dict[k].id = id
    THEN CHOOSE k \in 1..Len(dict) : dict[k].id = id
    ELSE 0

\* the words with one space between two of them
RECURSIVE Spaced(_)
Spaced(words) ==
    IF words = <<>> THEN <<>>
    ELSE IF Len(words) = 1 THEN <<words[1]>>
    ELSE <<words[1], " ">> \o Spaced(Tail(words))

\* ", ".join(names)
RECURSIVE JoinComma(_)
JoinComma(names) ==
    IF names = <<>> THEN <<>>
    ELSE IF Len(names) = 1 THEN <<names[1]>>
    ELSE <<names[1], ",", " ">> \o JoinComma(Tail(names))

\* ", ".join(phrases), each phrase a sequence of words and spaces
RECURSIVE JoinPhrases(_)
JoinPhrases(phrases) ==
    IF phrases = <<>> THEN <<>>
    ELSE IF Len(phrases) = 1 THEN phrases[1]
    ELSE phrases[1] \o <<",", " ">> \o JoinPhrases(Tail(phrases))

RECURSIVE JoinSlash(_)
JoinSlash(names) ==
    IF names = <<>> THEN <<>>
    ELSE IF Len(names) = 1 THEN <<names[1]>>
    ELSE <<names[1], "/">> \o JoinSlash(Tail(names))

\* no tile name starts with "[" (create_tile_name), so only the port-edge
\* marker is filtered out
get_intersection_description(mapper, intersection_id) ==
    LET k == IdIndex(mapper.intersections, intersection_id)
        actual_tiles == SelectSeq(mapper.intersections[k].tile_names,
                                  LAMBDA name : name # "(Port Edge)")
        base_desc ==
            CASE Len(actual_tiles) = 3 ->
                    <<intersection_id \o ":", " ", "Corner", " ", "of", " ">>
                    \o JoinComma(actual_tiles)
              [] Len(actual_tiles) = 2 ->
                    Spaced(<<intersection_id \o ":", "Edge", "corner", "of",
                             actual_tiles[1], "and", actual_tiles[2]>>)
              [] Len(actual_tiles) = 1 ->
                    Spaced(<<intersection_id \o ":", "Edge", "of", actual_tiles[1]>>)
              [] OTHER -> <<intersection_id \o ":", " ">> \o JoinSlash(actual_tiles)
        port_info == Get(mapper.port_intersections, intersection_id, <<>>)
    IN  IF k = 0 THEN Spaced(<<"Unknown", "intersection", intersection_id>>)
        ELSE IF port_info # <<>>
        THEN base_desc \o <<" ">> \o Spaced(<<"-", "Provides", "access", "to">>)
             \o <<" ">> \o JoinComma(port_info)
        ELSE base_desc

get_edge_description(mapper, edge_id) ==
    LET k == IdIndex(mapper.edges, edge_id)
    IN  IF k = 0 THEN Spaced(<<"Unknown", "edge", edge_id>>)
        ELSE Spaced(<<edge_id \o ":", "Road", "between",
                      mapper.edges[k].tile_names[1], "and",
                      mapper.edges[k].tile_names[2]>>)

_get_intersection_for_action(mapper, action_index) ==
    LET intersection_id == "I" \o ToString(action_index)
    IN  IF IdIndex(mapper.intersections, intersection_id) # 0
        THEN get_intersection_description(mapper, intersection_id)
        ELSE IF intersection_id \in DOMAIN mapper.port_intersections
        THEN Spaced(<<intersection_id \o ":", "Port", "settlement", "spot", "-",
                      "Provides", "access", "to">>)
             \o <<" ">> \o JoinComma(mapper.port_intersections[intersection_id])
        ELSE Spaced(<<intersection_id \o ":", "Settlement", "spot", "(node",
                      ToString(action_index) \o ")">>)

\* <<>> stands for None
_get_edge_for_action(mapper, action_index) ==
    IF action_index < Len(mapper.edges)
    THEN get_edge_description(mapper, mapper.edges[action_index + 1].id)
    ELSE <<>>

\* a description has at least one word, so it is falsy only when it is None
_create_axial_description(mapper, action, action_index) ==
    LET action_type == action.action_type
        value == action.value
        intersection_desc == _get_intersection_for_action(mapper, action_index)
        edge_desc == _get_edge_for_action(mapper, action_index)
    IN  CASE action_type = "BUILD_SETTLEMENT" ->
                IF intersection_desc # <<>>
                THEN Spaced(<<"Build", "settlement", "at">>) \o <<" ">>
                     \o intersection_desc
                ELSE Spaced(<<"Build", "settlement", "at", "intersection",
                              ToString(action_index), "(node">>)
                     \o <<" ">> \o WithSuffix(Formatted(value), ")")
          [] action_type = "BUILD_ROAD" ->
                IF edge_desc # <<>>
                THEN Spaced(<<"Build", "road:">>) \o <<" ">> \o edge_desc
                ELSE Spaced(<<"Build", "road", "at", "edge",
                              ToString(action_index), "(edge">>)
                     \o <<" ">> \o WithSuffix(Formatted(value), ")")
          [] action_type = "BUILD_CITY" ->
                IF intersection_desc # <<>>
                THEN Spaced(<<"Upgrade", "to", "city", "at">>) \o <<" ">>
                     \o intersection_desc
                ELSE Spaced(<<"Upgrade", "to", "city", "at", "intersection",
                              ToString(action_index), "(node">>)
                     \o <<" ">> \o WithSuffix(Formatted(value), ")")
          [] action_type = "MOVE_ROBBER" ->
                IF value.type \in {"list", "tuple"} /\ Len(value.items) >= 3
                THEN LET cube_coord == SubSeq(value.items, 1, 3)
                         axial_coord == cube_to_axial(cube_coord)
                     IN  IF HasTile(mapper.tiles, axial_coord)
                         THEN Spaced(<<"Move", "robber", "to",
                                mapper.tiles[TileIndex(mapper.tiles, axial_coord)].name>>)
                         ELSE Spaced(<<"Move", "robber", "to", "coordinate">>)
                              \o <<" ">> \o Formatted(PyTuple(axial_coord))
                ELSE Spaced(<<"Move", "robber", "(action",
                              ToString(action_index) \o ")">>)
          [] action_type = "ROLL" ->
                Spaced(<<"Roll", "dice", "to", "start", "turn">>)
          [] action_type = "END_TURN" -> Spaced(<<"End", "turn">>)
          [] action_type = "BUY_DEVELOPMENT_CARD" ->
                Spaced(<<"Buy", "development", "card">>)
          [] OTHER -> Title(action_type)

\* reached from _describe_single_action only, which describe_actions does
\* not call; value is a tuple of five counts and the wanted resource
_format_maritime_trade(value) ==
    IF value.type = "tuple" /\ Len(value.items) >= 5
    THEN LET items == value.items
             given == SelectSeq([i \in 1..Len(RESOURCES) |-> i],
                                LAMBDA i : i < Len(items) /\ items[i] > 0)
             offered_resources ==
                 [k \in 1..Len(given) |->
                     <<ToString(items[given[k]]), " ", RESOURCES[given[k]]>>]
             wanted_resource == IF Len(items) > 5 THEN items[Len(items)]
                                ELSE "unknown"
             offered_str == IF given = <<>> THEN <<"resources">>
                            ELSE JoinPhrases(offered_resources)
             total_offered == SumSeq(SubSeq(items, 1, Len(items) - 1))
             ratio == IF total_offered > 0 THEN ToString(total_offered) \o ":1"
                      ELSE "port"
         IN  <<"Trade", " ">> \o offered_str \o <<" ">>
             \o Spaced(<<"for", "1", wanted_resource, "at", ratio, "rate">>)
    ELSE <<"Maritime", " ", "trade:", " ">> \o Formatted(value)

\* the mapper kept as it is
clear_action_mappings_kept(mapper) == mapper
clear_action_mappings(mapper) == [mapper EXCEPT !.action_mappings = EmptyDict]

register_action_mapping(mapper, action_index, description) ==
    [mapper EXCEPT !.action_mappings = Put(@, action_index, description)]

\* Absent stands for None
find_action_by_description(mapper, description) ==
    LET matching == {idx \in DOMAIN mapper.action_mappings :
                        Text(mapper.action_mappings[idx]) = Text(description)}
    IN  IF matching = {} THEN Absent
        ELSE CHOOSE idx \in matching : \A other \in matching : idx <= other

\* the loop of describe_actions from index i; d holds the descriptions so
\* far and the mapper
RECURSIVE DescribeLoop(_, _, _)
DescribeLoop(d, actions, i) ==
    IF i >= Len(actions) THEN d
    ELSE LET readable_description ==
                 _create_axial_description(d.hex_mapper, actions[i + 1], i)
         IN  DescribeLoop(
                 [descriptions |-> Put(d.descriptions, i, readable_description),
                  hex_mapper |-> register_action_mapping(d.hex_mapper, i,
                                                         readable_description)],
                 actions, i + 1)

describe_actions(mapper, actions) ==
    DescribeLoop([descriptions |-> EmptyDict,
                  hex_mapper |-> clear_action_mappings(mapper)], actions, 0)

\* The moves given to describe_actions.
TradeWoodForOre ==
    [action_type |-> "MARITIME_TRADE", value |-> PyTuple(<<4, 0, 0, 0, 0, "ORE">>)]
TradeBrickForOre ==
    [action_type |-> "MARITIME_TRADE", value |-> PyTuple(<<0, 4, 0, 0, 0, "ORE">>)]
ParserMoves ==
    {[action_type |-> "BUILD_SETTLEMENT", value |-> PyInt(3)],
     [action_type |-> "BUILD_ROAD", value |-> PyTuple(<<0, 1>>)],
     [action_type |-> "MOVE_ROBBER", value |-> PyTuple(<<1, 0 - 1, 0>>)],
     [action_type |-> "ROLL", value |-> None],
     [action_type |-> "PLAY_KNIGHT_CARD", value |-> None],
     TradeWoodForOre, TradeBrickForOre}

\* The boards of the mapper the parser is built on: nothing registered, as
\* ActionParser() leaves it, and two adjacent tiles.
TwoTiles ==
    <<[coordinate |-> <<0, 0, 0>>, resource |-> "WOOD", number |-> 6],
      [coordinate |-> <<1, 0 - 1, 0>>, resource |-> ""]>>
ParserBoards == {<<>>, TwoTiles}

ActionParserInit ==
    /\ \E board \in ParserBoards :
          /\ hex_mapper = register_tiles(NewHexAxialMapper, board)
          /\ tiles_data = board
    /\ hm_repeats = 0
    /\ ap_actions = <<>>
    /\ ap_descriptions = EmptyDict
    /\ ap_shorter = FALSE

DescribeActions ==
    \E actions \in SeqsUpTo(ParserMoves, MaxMoves) :
        LET d == describe_actions(hex_mapper, actions)
        IN  /\ hex_mapper' = d.hex_mapper
            /\ ap_descriptions' = d.descriptions
            /\ ap_actions' = actions
            /\ ap_shorter' = (Len(actions) < Len(ap_actions))
            /\ UNCHANGED <<tiles_data, hm_repeats>>

(***************************************************************************)
(* The coordinate conversions of HexAxialMapper as a two-step computation: *)
(* conv.axial is the input, conv.cube what axial_to_cube returned for it,  *)
(* conv.back what cube_to_axial returned for that (<<>> before the call).  *)
(***************************************************************************)
VARIABLES conv

conv_vars == <<conv>>

ConvInit ==
    \E q \in (0 - MaxCoord)..MaxCoord, r \in (0 - MaxCoord)..MaxCoord :
        conv = [axial |-> <<q, r>>, cube |-> <<>>, back |-> <<>>]

AxialToCube ==
    /\ conv.cube = <<>>
    /\ conv' = [conv EXCEPT !.cube = axial_to_cube(conv.axial)]

CubeToAxial ==
    /\ conv.cube # <<>>
    /\ conv.back = <<>>
    /\ conv' = [conv EXCEPT !.back = cube_to_axial(conv.cube)]

(***************************************************************************)
(* Section 7.  The real-time managers (tournament/realtime_manager.py and  *)
(* tournament/simple_realtime_manager.py)                                  *)
(*                                                                         *)
(* Both classes extend TournamentManager, inherit its loops and override   *)
(* run_tournament and _play_single_game with the same code up to the       *)
(* broadcasts and log calls; line numbers are those of realtime_manager.py.*)
(* current_games is read by the web handlers while a game is played, so    *)
(* each assignment to a game's status is a step of its own.                *)
(***************************************************************************)
VARIABLES
    rt_pc,              \* "idle", "game", "starting", "running", "played",
                        \* "done", "rejected" or "aborted"
    rt_players,         \* self.players: the roster names in insertion order
    rt_games_per_matchup, \* argument of run_tournament
    rt_matchup_idx,     \* outer loop variable of the inherited loops (0-based)
    rt_game_num,        \* inner loop variable (0-based)
    rt_game_results,    \* local list of _run_round_robin_tournament
    rt_outcome,         \* what the rules engine did in the game in progress
    rt_result,          \* what _play_game_with_streaming returned for it
    current_games,      \* self.current_games: game id -> tracked entry
    tournament_status   \* self.tournament_status

rt_vars == <<rt_pc, rt_players, rt_games_per_matchup, rt_matchup_idx, rt_game_num,
             rt_game_results, rt_outcome, rt_result, current_games,
             tournament_status>>

NoOutcome == [kind |-> "none", winner_color |-> None, final_scores |-> EmptyDict]

\* the player_names of the game in progress
RtPlayerNames == Matchups(rt_players)[rt_matchup_idx + 1]
RtGameId == GameId(rt_matchup_idx, rt_game_num)

\* _play_game_with_streaming, lines 987-993: winner_info
RtWinnerInfo(player_info, winner_color) ==
    IF winner_color = None THEN None
    ELSE LET hits == SelectSeq(player_info, LAMBDA info : PyStr(info.color) = winner_color)
         IN  [type |-> "dict",
              name |-> IF hits = <<>> THEN None ELSE PyStr(hits[1].name),
              color |-> winner_color]

\* lines 996 and 1000: the status the inner function leaves
StatusAfterPlay(winner_color) == IF winner_color # None THEN "completed" ELSE "tie"

\* _play_single_game, lines 812-813: the status set after the inner function
\* returned
FinalStatus(result) == IF result.winner # None THEN "completed" ELSE "failed"

RealtimeInit ==
    /\ rt_pc = "idle"
    /\ \E n \in 0..MaxPlayers :
          /\ n <= Len(RosterNames)
          /\ rt_players = SubSeq(RosterNames, 1, n)
    /\ rt_games_per_matchup = 0
    /\ rt_matchup_idx = 0
    /\ rt_game_num = 0
    /\ rt_game_results = <<>>
    /\ rt_outcome = NoOutcome
    /\ rt_result = None
    /\ current_games = EmptyDict
    /\ tournament_status = "not_started"

\* run_tournament, lines 748-777, with fewer than two players: the inherited
\* run_tournament raises, the handler marks the tournament failed and re-raises.
RtRunTournamentTooFewPlayers ==
    /\ rt_pc = "idle"
    /\ Len(rt_players) < 2
    /\ tournament_status' = "failed"
    /\ rt_pc' = "rejected"
    /\ UNCHANGED <<rt_players, rt_games_per_matchup, rt_matchup_idx, rt_game_num,
                   rt_game_results, rt_outcome, rt_result, current_games>>

\* run_tournament up to the first call of _play_single_game
RtRunTournament ==
    \E g \in 1..MaxGamesPerMatchup :
        /\ rt_pc = "idle"
        /\ Len(rt_players) >= 2
        /\ TotalGames(rt_players, g) <= MaxPlanned
        /\ rt_games_per_matchup' = g
        /\ tournament_status' = "running"
        /\ rt_pc' = "game"
        /\ UNCHANGED <<rt_players, rt_matchup_idx, rt_game_num, rt_game_results,
                       rt_outcome, rt_result, current_games>>

\* _play_single_game, lines 787-799: the game is tracked as 'starting'
RtGameStarts ==
    /\ rt_pc = "game"
    /\ current_games' = Put(current_games, RtGameId,
                            [status |-> "starting", winner |-> None])
    /\ rt_pc' = "starting"
    /\ UNCHANGED <<rt_players, rt_games_per_matchup, rt_matchup_idx, rt_game_num,
                   rt_game_results, rt_outcome, rt_result, tournament_status>>

\* _play_game_with_streaming, lines 924-959: the players are built and the
\* try block marks the game 'running'
RtPlayersBuilt ==
    /\ rt_pc = "starting"
    /\ current_games' = [current_games EXCEPT ![RtGameId].status = "running"]
    /\ rt_pc' = "running"
    /\ UNCHANGED <<rt_players, rt_games_per_matchup, rt_matchup_idx, rt_game_num,
                   rt_game_results, rt_outcome, rt_result, tournament_status>>

\* lines 928-951: building a player raises, outside the try block; nothing
\* on the way up catches it and run_tournament marks the tournament failed.
RtPlayerConstructionRaises ==
    /\ rt_pc = "starting"
    /\ \E i \in 1..Len(RtPlayerNames) :
          PlayerInfo(RtPlayerNames, Colors)[i].type = "llm"
    /\ tournament_status' = "failed"
    /\ rt_pc' = "aborted"
    /\ UNCHANGED <<rt_players, rt_games_per_matchup, rt_matchup_idx, rt_game_num,
                   rt_game_results, rt_outcome, rt_result, current_games>>

\* lines 962-1015: game.play() returns and the result is built
RtGamePlayed ==
    \E outcome \in EnginePlayed :
        /\ rt_pc = "running"
        /\ rt_outcome' = outcome
        /\ LET player_info == PlayerInfo(RtPlayerNames, Colors)
               winner_info == RtWinnerInfo(player_info, outcome.winner_color)
           IN  /\ current_games' =
                     [current_games EXCEPT
                         ![RtGameId] = [status |-> StatusAfterPlay(outcome.winner_color),
                                        winner |-> winner_info]]
               /\ rt_result' = [game_id |-> RtGameId,
                                matchup_index |-> rt_matchup_idx,
                                game_number |-> rt_game_num,
                                players |-> player_info,
                                winner |-> winner_info]
        /\ rt_pc' = "played"
        /\ UNCHANGED <<rt_players, rt_games_per_matchup, rt_matchup_idx, rt_game_num,
                       rt_game_results, tournament_status>>

\* lines 1017-1022 and 773-777: the try block raises; the handler marks the
\* game 'failed' and re-raises, _play_single_game and the inherited loops let
\* the exception through, run_tournament marks the tournament failed.
RtGameRaises ==
    /\ rt_pc = "running"
    /\ rt_outcome' = EngineRaised
    /\ current_games' = [current_games EXCEPT ![RtGameId].status = "failed"]
    /\ tournament_status' = "failed"
    /\ rt_pc' = "aborted"
    /\ UNCHANGED <<rt_players, rt_games_per_matchup, rt_matchup_idx, rt_game_num,
                   rt_game_results, rt_result>>

\* _play_single_game, lines 811-822, the append and the loop tests of the
\* inherited _run_round_robin_tournament, and, after the last game, the
\* return of run_tournament (lines 765-772).
RtGameRecorded ==
    /\ rt_pc = "played"
    /\ current_games' =
          [current_games EXCEPT
              ![RtGameId] = [status |-> FinalStatus(rt_result),
                             winner |-> rt_result.winner]]
    /\ rt_game_results' = Append(rt_game_results, rt_result)
    /\ rt_result' = None
    /\ rt_outcome' = NoOutcome
    /\ IF rt_game_num + 1 < rt_games_per_matchup
       THEN /\ rt_game_num' = rt_game_num + 1
            /\ rt_pc' = "game"
            /\ UNCHANGED <<rt_matchup_idx, tournament_status>>
       ELSE IF rt_matchup_idx + 1 < Len(Matchups(rt_players))
       THEN /\ rt_matchup_idx' = rt_matchup_idx + 1
            /\ rt_game_num' = 0
            /\ rt_pc' = "game"
            /\ UNCHANGED tournament_status
       ELSE /\ tournament_status' = "completed"
            /\ rt_pc' = "done"
            /\ UNCHANGED <<rt_matchup_idx, rt_game_num>>
    /\ UNCHANGED <<rt_players, rt_games_per_matchup>>

RealtimeUnused == RealtimeInit /\ Len(rt_players) = 0

(***************************************************************************)
(* Section 8.  The reply parser of LLMPlayer (core/llm_player.py)          *)
(*                                                                         *)
(* A reply is a sequence of tokens separated by blanks: braces, the key    *)
(* "action_index": of the requested object, a word, or an integer.         *)
(***************************************************************************)
VARIABLES
    parse              \* one call of _parse_llm_response: the reply, what the
                       \* repair pass does if it is run, and once the call
                       \* has ended its result

parse_vars == <<parse>>

IntegerTokens == {"1", "2"}
ReplyTokens == {"{", "}", "\"action_index\":", "word"} \cup IntegerTokens
IntValue(token) == IF token = "1" THEN 1 ELSE 2
ReplyTexts == UNION {[1..n -> ReplyTokens] : n \in 0..MaxReplyLen}

\* clean_json, lines 279-288: the scan from the last '}' backwards to the '{'
\* that balances it; 0 when the scan ends without one
RECURSIVE ScanBack(_, _, _)
ScanBack(json_str, i, depth) ==
    IF i < 1 THEN 0
    ELSE LET d == IF json_str[i] = "}" THEN depth + 1
                  ELSE IF json_str[i] = "{" THEN depth - 1
                  ELSE depth
         IN  IF json_str[i] = "{" /\ d = 0 THEN i ELSE ScanBack(json_str, i - 1, d)

LastIndexOf(json_str, token) ==
    IF \E i \in 1..Len(json_str) : json_str[i] = token
    THEN CHOOSE i \in 1..Len(json_str) :
            /\ json_str[i] = token
            /\ \A j \in (i + 1)..Len(json_str) : json_str[j] # token
    ELSE 0

\* clean_json, lines 276-293
clean_json(json_str) ==
    LET json_end == LastIndexOf(json_str, "}")
        json_start == ScanBack(json_str, json_end, 0)
    IN  IF json_start # 0 THEN SubSeq(json_str, json_start, json_end) ELSE json_str

\* json.loads on a reply: an integer, the empty object or the requested
\* object are JSON, every other token sequence raises JSONDecodeError
json_loads(text) ==
    IF Len(text) = 1 /\ text[1] \in IntegerTokens
    THEN [ok |-> TRUE, type |-> "int", action_index |-> PyInt(IntValue(text[1]))]
    ELSE IF text = <<"{", "}">>
    THEN [ok |-> TRUE, type |-> "dict", action_index |-> None]
    ELSE IF /\ Len(text) = 4
            /\ text[1] = "{" /\ text[2] = "\"action_index\":"
            /\ text[3] \in IntegerTokens /\ text[4] = "}"
    THEN [ok |-> TRUE, type |-> "dict", action_index |-> PyInt(IntValue(text[3]))]
    ELSE [ok |-> FALSE, type |-> "JSONDecodeError", action_index |-> None]

\* re.findall(r'\b\d+\b', response), line 320
Numbers(response) == SelectSeq(response, LAMBDA token : token \in IntegerTokens)

\* What json_fix (lines 261-274) can do: use_groq is called with the player
\* as its prompt and sends it to the Groq service; the call raises a TypeError
\* or ValueError (the message cannot be serialised, a reply is not JSON) or an
\* exception of another class (connection, authentication, attribute error).
RepairOutcomes == {"raises_caught", "raises_other"}

\* _parse_llm_response, lines 318-325: the handler of JSONDecodeError,
\* ValueError and TypeError, run on the value response has by then
NumberFallback(response) ==
    IF Numbers(response) # <<>>
    THEN [kind |-> "index", action_index |-> IntValue(Numbers(response)[1]), error |-> "none"]
    ELSE [kind |-> "raise", action_index |-> 0, error |-> "ValueError"]

\* _parse_llm_response, lines 295-325
_parse_llm_response(reply_text, repair) ==
    LET response == clean_json(reply_text)
        parsed == json_loads(response)
    IN  IF parsed.ok
        THEN IF parsed.type # "dict"
             THEN [kind |-> "raise", action_index |-> 0, error |-> "AttributeError"]
             ELSE IF parsed.action_index = None
             THEN NumberFallback(response)
             ELSE [kind |-> "index", action_index |-> parsed.action_index.items[1],
                   error |-> "none"]
        ELSE IF repair = "raises_caught"
        THEN NumberFallback(response)
        ELSE [kind |-> "raise", action_index |-> 0, error |-> "other"]

NotParsed == [kind |-> "none", action_index |-> 0, error |-> "none"]

ParseInit ==
    \E reply_text \in ReplyTexts, repair \in RepairOutcomes :
        parse = [response |-> reply_text, repair |-> repair, result |-> NotParsed]

ParseLLMResponse ==
    /\ parse.result = NotParsed
    /\ parse' = [parse EXCEPT !.result = _parse_llm_response(parse.response, parse.repair)]

ParseUnused ==
    parse = [response |-> <<>>, repair |-> "raises_caught", result |-> NotParsed]

MapperUnused == MapperInit
ActionParserUnused ==
    ap_actions = <<>> /\ ap_descriptions = EmptyDict /\ ap_shorter = FALSE
ConvUnused == conv = [axial |-> <<0, 0>>, cube |-> <<>>, back |-> <<>>]

core_vars == <<gs_vars, hm_vars, ap_vars, conv_vars>>

vars == <<llm_vars, t_vars, elo_vars, c_vars, core_vars, rt_vars, parse_vars>>

\* The component a specification does not exercise stays as constructed.
LLMUnused == LLMInit /\ max_retries = 0
TournamentUnused == TournamentInit /\ Len(players) = 0
EloUnused == EloInit /\ elo_results.games = <<>>
CompetitionUnused == c_pc = "start" /\ final_rankings = None
GameStateUnused ==
    /\ GameStateInit
    /\ gs_input.state.layout = "flat"
    /\ gs_input.state.player_state["BLUE"] =
          PlayerEntry(2, 2, [r \in Range(RESOURCES) |-> 0],
                      [card \in Range(DEVELOPMENT_CARDS) |-> 0])
    /\ gs_input.current_player_color = "RED"
CoreUnused ==
    GameStateUnused /\ MapperUnused /\ ActionParserUnused /\ ConvUnused

\* The steps of each specification: one action of its component, the other
\* components left as they are.
LLMStep ==
    \/ DecideShortcut /\ UNCHANGED <<t_vars, elo_vars, c_vars, core_vars, rt_vars, parse_vars>>
    \/ DecideQuery /\ UNCHANGED <<t_vars, elo_vars, c_vars, core_vars, rt_vars, parse_vars>>
    \/ DecidePrepareRaises /\ UNCHANGED <<t_vars, elo_vars, c_vars, core_vars, rt_vars, parse_vars>>
    \/ QuerySucceeds /\ UNCHANGED <<t_vars, elo_vars, c_vars, core_vars, rt_vars, parse_vars>>
    \/ QueryFails /\ UNCHANGED <<t_vars, elo_vars, c_vars, core_vars, rt_vars, parse_vars>>
    \/ DecideDone /\ UNCHANGED <<t_vars, elo_vars, c_vars, core_vars, rt_vars, parse_vars>>
    \/ ResetState /\ UNCHANGED <<t_vars, elo_vars, c_vars, core_vars, rt_vars, parse_vars>>

TournamentStep ==
    \/ RunTournamentTooFewPlayers /\ UNCHANGED <<llm_vars, elo_vars, c_vars, core_vars, rt_vars, parse_vars>>
    \/ RunTournament /\ UNCHANGED <<llm_vars, elo_vars, c_vars, core_vars, rt_vars, parse_vars>>
    \/ PlayGameCompleted /\ UNCHANGED <<llm_vars, elo_vars, c_vars, core_vars, rt_vars, parse_vars>>
    \/ PlayGameRaises /\ UNCHANGED <<llm_vars, elo_vars, c_vars, core_vars, rt_vars, parse_vars>>
    \/ PlayGameConstructionRaises /\ UNCHANGED <<llm_vars, elo_vars, c_vars, core_vars, rt_vars, parse_vars>>

EloStep ==
    \/ CalculateEloReturns /\ UNCHANGED <<llm_vars, t_vars, c_vars, core_vars, rt_vars, parse_vars>>
    \/ CalculateEloRaises /\ UNCHANGED <<llm_vars, t_vars, c_vars, core_vars, rt_vars, parse_vars>>

CompetitionStep ==
    \/ MainReturnsEarly /\ UNCHANGED <<llm_vars, elo_vars, core_vars, rt_vars, parse_vars>>
    \/ MainRunTournament /\ UNCHANGED <<llm_vars, elo_vars, core_vars, rt_vars, parse_vars>>
    \/ MainGameCompleted /\ UNCHANGED <<llm_vars, elo_vars, core_vars, rt_vars, parse_vars>>
    \/ MainGameRaises /\ UNCHANGED <<llm_vars, elo_vars, core_vars, rt_vars, parse_vars>>
    \/ MainTournamentFails /\ UNCHANGED <<llm_vars, elo_vars, core_vars, rt_vars, parse_vars>>
    \/ FinalRankings /\ UNCHANGED <<llm_vars, elo_vars, core_vars, rt_vars, parse_vars>>

InitLLM ==
    ParseUnused /\ RealtimeUnused /\ TournamentUnused /\ EloUnused /\ CompetitionUnused /\ CoreUnused /\ LLMInit
SpecLLM ==
    InitLLM
    /\ [][LLMStep]_vars

InitTournament ==
    ParseUnused /\ RealtimeUnused /\ LLMUnused /\ EloUnused /\ CompetitionUnused /\ CoreUnused /\ TournamentInit
SpecTournament ==
    InitTournament
    /\ [][TournamentStep]_vars

InitElo ==
    ParseUnused /\ RealtimeUnused /\ LLMUnused /\ TournamentUnused /\ CompetitionUnused /\ CoreUnused /\ EloInit
SpecElo ==
    InitElo
    /\ [][EloStep]_vars

InitCompetition == ParseUnused /\ RealtimeUnused /\ LLMUnused /\ EloUnused /\ CoreUnused /\ CompetitionInit
SpecCompetition ==
    InitCompetition
    /\ [][CompetitionStep]_vars

OtherUnused ==
    LLMUnused /\ TournamentUnused /\ EloUnused /\ CompetitionUnused /\ RealtimeUnused
    /\ ParseUnused
other_vars == <<llm_vars, t_vars, elo_vars, c_vars, rt_vars, parse_vars>>

GameStateStep ==
    \/ ExtractStateReturns /\ UNCHANGED <<other_vars, hm_vars, ap_vars, conv_vars>>
    \/ ExtractStateRaises /\ UNCHANGED <<other_vars, hm_vars, ap_vars, conv_vars>>

InitGameState ==
    OtherUnused /\ MapperUnused /\ ActionParserUnused /\ ConvUnused /\ GameStateInit
SpecGameState ==
    InitGameState
    /\ [][GameStateStep]_vars

MapperStep ==
    \/ RegisterTiles /\ UNCHANGED <<other_vars, gs_vars, ap_vars, conv_vars>>
    \/ RegisterTilesAgain /\ UNCHANGED <<other_vars, gs_vars, ap_vars, conv_vars>>

InitMapper ==
    OtherUnused /\ GameStateUnused /\ ActionParserUnused /\ ConvUnused /\ MapperInit
SpecMapper ==
    InitMapper
    /\ [][MapperStep]_vars

ActionParserStep ==
    \/ DescribeActions /\ UNCHANGED <<other_vars, gs_vars, conv_vars>>

InitActionParser ==
    OtherUnused /\ GameStateUnused /\ ConvUnused /\ ActionParserInit
SpecActionParser ==
    InitActionParser
    /\ [][ActionParserStep]_vars

ConvStep ==
    \/ AxialToCube /\ UNCHANGED <<other_vars, gs_vars, hm_vars, ap_vars>>
    \/ CubeToAxial /\ UNCHANGED <<other_vars, gs_vars, hm_vars, ap_vars>>

InitConv ==
    OtherUnused /\ GameStateUnused /\ MapperUnused /\ ActionParserUnused /\ ConvInit
SpecConv ==
    InitConv
    /\ [][ConvStep]_vars

RealtimeStep ==
    \/ RtRunTournamentTooFewPlayers /\ UNCHANGED <<llm_vars, t_vars, elo_vars, c_vars, core_vars, parse_vars>>
    \/ RtRunTournament /\ UNCHANGED <<llm_vars, t_vars, elo_vars, c_vars, core_vars, parse_vars>>
    \/ RtGameStarts /\ UNCHANGED <<llm_vars, t_vars, elo_vars, c_vars, core_vars, parse_vars>>
    \/ RtPlayersBuilt /\ UNCHANGED <<llm_vars, t_vars, elo_vars, c_vars, core_vars, parse_vars>>
    \/ RtPlayerConstructionRaises /\ UNCHANGED <<llm_vars, t_vars, elo_vars, c_vars, core_vars, parse_vars>>
    \/ RtGamePlayed /\ UNCHANGED <<llm_vars, t_vars, elo_vars, c_vars, core_vars, parse_vars>>
    \/ RtGameRaises /\ UNCHANGED <<llm_vars, t_vars, elo_vars, c_vars, core_vars, parse_vars>>
    \/ RtGameRecorded /\ UNCHANGED <<llm_vars, t_vars, elo_vars, c_vars, core_vars, parse_vars>>

InitRealtime ==
    LLMUnused /\ TournamentUnused /\ EloUnused /\ CompetitionUnused /\ CoreUnused
    /\ ParseUnused
    /\ RealtimeInit
SpecRealtime ==
    InitRealtime
    /\ [][RealtimeStep]_vars

ParseStep ==
    \/ ParseLLMResponse /\ UNCHANGED <<llm_vars, t_vars, elo_vars, c_vars, core_vars, rt_vars>>

InitParse ==
    LLMUnused /\ TournamentUnused /\ EloUnused /\ CompetitionUnused /\ CoreUnused
    /\ RealtimeUnused /\ ParseInit
SpecParse ==
    InitParse
    /\ [][ParseStep]_vars

(***************************************************************************)
(* Properties of LLMPlayer.decide                                          *)
(***************************************************************************)

\* C1: when the legal-move list is not empty and every backend query of the
\* call raised, decide returns the first move, does not raise, and has made
\* at most max_retries backend queries.
C1_RaisingBackendFallsBack ==
    /\ only_raises => queries <= max_retries
    /\ (llm_pc \in {"returned", "raised"} /\ Len(playable_actions) > 0 /\ only_raises)
          => /\ llm_pc = "returned"
             /\ selected = playable_actions[1]

C1_Witness ==
    /\ llm_pc = "returned"
    /\ only_raises
    /\ reply = RaisedReply
    /\ max_retries >= 2
    /\ queries = max_retries
    /\ Len(playable_actions) = 2
    /\ playable_actions[1] # playable_actions[2]
    /\ selected = playable_actions[1]

\* C2 (state part): a returned move is an element of the list: the move at
\* the in-range index of the last reply, or the first move.
C2_ReturnedMoveIsLegal ==
    llm_pc = "returned" =>
        /\ \E i \in 1..Len(playable_actions) : selected = playable_actions[i]
        /\ \/ selected = playable_actions[1]
           \/ /\ reply.kind = "index"
              /\ 0 <= reply.action_index
              /\ reply.action_index < Len(playable_actions)
              /\ selected = playable_actions[reply.action_index + 1]

\* C2 (step part): a query whose reply names an index outside
\* 0 .. len(moves)-1 is counted as a retry and selects nothing; if decide
\* returns in that step, it returns the fallback.
C2_OutOfRangeStep ==
    (/\ queries' = queries + 1
     /\ reply'.kind = "index"
     /\ (reply'.action_index < 0 \/ reply'.action_index >= Len(playable_actions)))
    => /\ stats'.retry_count = stats.retry_count + 1
       /\ llm_pc' = "returned" =>
             /\ stats'.fallback_count = stats.fallback_count + 1
             /\ selected' = playable_actions[1]
       /\ llm_pc' = "query" => selected' = NoMove

\* C2: every move decide returns is legal, and an out-of-range index is a
\* failed attempt.
C2_LegalMoveOnly == []C2_ReturnedMoveIsLegal /\ [][C2_OutOfRangeStep]_vars

C2_Witness ==
    /\ llm_pc = "returned"
    /\ Len(playable_actions) = 2
    /\ reply.kind = "index"
    /\ reply.action_index = 1
    /\ selected = playable_actions[2]
    /\ selected # playable_actions[1]
    /\ stats.retry_count > 0

\* C3: a decide call whose list is one ROLL or one END_TURN returns that
\* move with no backend query and leaves the latency counters unchanged; a
\* call with any other list enters the retry loop or the except branch.
C3_ShortcutStep ==
    (llm_pc = "idle" /\ llm_pc' # "idle") =>
        IF /\ Len(playable_actions') = 1
           /\ playable_actions'[1].action_type \in {"ROLL", "END_TURN"}
        THEN /\ llm_pc' = "returned"
             /\ selected' = playable_actions'[1]
             /\ queries' = 0
             /\ stats'.total_decision_time = stats.total_decision_time
             /\ stats'.avg_decision_time = stats.avg_decision_time
             /\ stats'.total_decisions = stats.total_decisions + 1
        ELSE \/ llm_pc' = "query"
             \/ /\ stats'.failed_decisions = stats.failed_decisions + 1
                /\ stats'.total_decision_time > stats.total_decision_time

C3_Shortcut == [][C3_ShortcutStep]_vars

C3_Witness ==
    /\ llm_pc = "returned"
    /\ playable_actions = <<[action_type |-> "ROLL"]>>
    /\ selected = [action_type |-> "ROLL"]
    /\ queries = 0
    /\ stats.total_decisions = 2
    /\ stats.total_decision_time = 1
    /\ stats.successful_decisions = 1

\* C4: decide raises to its caller exactly when the legal-move list is
\* empty: the fallback selector raises and nothing is returned.
C4_EmptyListRaises ==
    /\ (llm_pc \in {"returned", "raised"} /\ playable_actions = <<>>)
          => (llm_pc = "raised" /\ selected = NoMove)
    /\ llm_pc = "raised" => (playable_actions = <<>> /\ stats.fallback_count > 0)

C4_Witness ==
    /\ llm_pc = "raised"
    /\ playable_actions = <<>>
    /\ max_retries >= 1
    /\ queries = max_retries
    /\ stats.fallback_count = 1
    /\ stats.failed_decisions = 1

(***************************************************************************)
(* Properties of TournamentManager                                         *)
(***************************************************************************)
Choose4(n) == (n * (n - 1) * (n - 2) * (n - 3)) \div 24
PlannedGames == IF Len(players) <= 4 THEN games_per_matchup
                ELSE Choose4(Len(players)) * games_per_matchup

\* C5: no exception of the rules engine or of a player, while a game is set
\* up or played, ends the tournament: run_tournament does not re-raise, every
\* planned game has a result, and a game that raised has winner None and an
\* error message.
C5_GameFailureDoesNotAbort ==
    /\ t_pc # "aborted"
    /\ t_pc = "done" =>
          /\ Len(game_results) = PlannedGames
          /\ \A i \in 1..Len(game_results) :
                engine_log[i].kind = "raises" =>
                    /\ game_results[i].winner = None
                    /\ game_results[i].error # None

\* The names of the players whose score in the engine's final scores is the
\* maximum.
LeadersOf(result, outcome) ==
    {result.players[j].name : j \in
        {k \in 1..Len(result.players) :
            /\ result.players[k].color \in DOMAIN outcome.final_scores
            /\ \A c \in DOMAIN outcome.final_scores :
                  outcome.final_scores[c] <= outcome.final_scores[result.players[k].color]}}

\* C6: in a result with a winner, a definitive winner of the engine is
\* recorded as one string with is_tie = False; otherwise the winners are the
\* players with the maximum final score, a list with is_tie = True when they
\* are two or more and one string with is_tie = False when there is one.
C6_WinnerShape ==
    \A i \in 1..Len(game_results) :
        LET result == game_results[i]
            outcome == engine_log[i]
        IN  result.winner # None =>
               IF outcome.winner_color # None
               THEN /\ result.winner.name.type = "str"
                    /\ result.winner.is_tie = FALSE
                    /\ \E j \in 1..Len(result.players) :
                          /\ PyStr(result.players[j].color) = outcome.winner_color
                          /\ result.winner.name.items = <<result.players[j].name>>
               ELSE /\ Range(result.winner.name.items) = LeadersOf(result, outcome)
                    /\ Len(result.winner.name.items) = Cardinality(LeadersOf(result, outcome))
                    /\ result.winner.is_tie = (Cardinality(LeadersOf(result, outcome)) >= 2)
                    /\ result.winner.name.type =
                          (IF Cardinality(LeadersOf(result, outcome)) >= 2 THEN "list" ELSE "str")

C6_Witness ==
    /\ t_pc = "done"
    /\ Len(game_results) = 2
    /\ engine_log[1].winner_color = PyStr("WHITE")
    /\ game_results[1].winner.name = PyStr("Gemini-2.5-Pro")
    /\ engine_log[2].winner_color = None
    /\ game_results[2].winner # None
    /\ game_results[2].winner.is_tie
    /\ game_results[2].winner.name = PyList(<<"Claude-Sonnet-4", "Gemini-2.5-Pro", "Kimi-K2">>)

\* The wins one more result adds to each aggregation, summed over the players.
WinCountsTotal(results) == SumValues(_analyze_tournament_results(results).win_counts)
PlayerWinsTotal(results) ==
    LET st == _calculate_player_statistics(results)
    IN  SumValues([n \in DOMAIN st |-> st[n].wins])
MatchupWinsTotal(results) ==
    LET md == _analyze_matchups(results)
    IN  SumValues([k \in DOMAIN md |-> SumValues(md[k].wins)])

\* C7: in win_counts, in the player statistics and in the matchup wins, each
\* game result adds wins that sum to one win when it has a winner and to
\* nothing when its winner is None (every result list of a run is a prefix
\* of a later one, so the last result stands for each of them).
C7_FractionalWins ==
    /\ game_results # <<>> =>
          LET before == SubSeq(game_results, 1, Len(game_results) - 1)
              expected == IF game_results[Len(game_results)].winner # None
                          THEN WinUnit ELSE 0
          IN  /\ WinCountsTotal(game_results) - WinCountsTotal(before) = expected
              /\ PlayerWinsTotal(game_results) - PlayerWinsTotal(before) = expected
              /\ MatchupWinsTotal(game_results) - MatchupWinsTotal(before) = expected
    /\ t_pc = "done" =>
          /\ SumValues(tournament_results.analysis.win_counts)
                = WinUnit * tournament_results.analysis.successful_games
          /\ SumValues([n \in DOMAIN tournament_results.player_stats |->
                           tournament_results.player_stats[n].wins])
                = WinUnit * tournament_results.analysis.successful_games

C7_Witness ==
    /\ t_pc = "done"
    /\ Len(game_results) = 2
    /\ game_results[1].winner = None
    /\ game_results[2].winner # None
    /\ game_results[2].winner.is_tie
    /\ Len(game_results[2].winner.name.items) = 3
    /\ Len(players) = 4
    /\ "Kimi-K2" \in DOMAIN tournament_results.analysis.win_counts
    /\ tournament_results.analysis.win_counts["Kimi-K2"] * 3 = WinUnit
    /\ tournament_results.player_stats["Kimi-K2"].wins * 3 = WinUnit
    /\ tournament_results.player_stats["GPT-5"].wins = 0

GainOf(stats_of(_), games, i, name) ==
    stats_of(SubSeq(games, 1, i))[name] - stats_of(SubSeq(games, 1, i - 1))[name]

RankingWins(games) ==
    [name \in Range(CompetitionRoster) |-> RankingPlayerStats(games)[name].wins]
SummaryWins(games) ==
    [name \in Range(CompetitionRoster) |-> Get(WinsByPlayer(games), name, 0)]

\* C8: in the final-ranking statistics of the competition script a game tied
\* among k players adds 1/k of a win to each tied player, so the wins one
\* game adds, summed over all players, are exactly 1.
C8_TieAddsFraction ==
    c_pc = "ranked" =>
        \A i \in 1..Len(tournament_results.games) :
            LET games == tournament_results.games
                game == games[i]
                ranking_gain == [name \in Range(CompetitionRoster) |->
                                    GainOf(RankingWins, games, i, name)]
                summary_gain == [name \in Range(CompetitionRoster) |->
                                    GainOf(SummaryWins, games, i, name)]
            IN  game.winner # None =>
                    /\ SumValues(ranking_gain) = 1
                    /\ SumValues(summary_gain) = 1
                    /\ game.winner.is_tie =>
                          \A name \in Range(game.winner.name.items) :
                              ranking_gain[name] * Len(game.winner.name.items) = 1

(***************************************************************************)
(* Properties of calculate_elo_ratings                                     *)
(***************************************************************************)
\* C9: for a single game between two players A and B, both rated 1500, that
\* A wins outright, calculate_elo_ratings yields elo[A] > 1500 > elo[B] with
\* elo[A] - 1500 = 1500 - elo[B].
C9_EloZeroSum ==
    (/\ elo_pc = "returned"
     /\ Len(elo_results.games) = 1
     /\ Len(elo_results.games[1].players) = 2
     /\ elo_results.games[1].winner # None
     /\ ~elo_results.games[1].winner.is_tie)
    => LET game == elo_results.games[1]
           A == game.winner.name.items[1]
           B == IF game.players[1].name = A THEN game.players[2].name
                ELSE game.players[1].name
           start == InitialRating * EloUnit
       IN  /\ elo_ratings[A] > start
           /\ start > elo_ratings[B]
           /\ elo_ratings[A] - start = start - elo_ratings[B]

(***************************************************************************)
(* Properties of GameStateExtractor.extract_state                          *)
(***************************************************************************)
OpponentTotals(entry) ==
    <<SumSeqOf(RESOURCES, entry.resources), SumSeqOf(DEVELOPMENT_CARDS, entry.in_hand)>>

\* The two engine states differ at most in how the opponent's resource cards
\* and development cards in hand are split among the kinds.
SameButHands ==
    LET entry == gs_input.state.player_state["BLUE"]
        twin_entry == gs_input.twin.player_state["BLUE"]
    IN  /\ [twin_entry EXCEPT !.resources = entry.resources, !.in_hand = entry.in_hand] = entry
        /\ OpponentTotals(entry) = OpponentTotals(twin_entry)

\* C11: two engine states that differ only in how an opponent's resource
\* cards are split among the resource types, or in the kinds of development
\* cards the opponent holds, with equal totals, give the same snapshot; an
\* opponent's entry carries the two counts and no hand by kind.
C11_OpponentHandsHidden ==
    (gs_pc = "returned" /\ SameButHands) =>
        /\ gs_output.state = gs_output.twin
        /\ \A i \in 1..Len(gs_output.state.opponents) :
              /\ gs_output.state.opponents[i].resources = None
              /\ gs_output.state.opponents[i].development_cards = None

C11_Witness ==
    /\ gs_pc = "returned"
    /\ SameButHands
    /\ gs_input.state.player_state["BLUE"].resources
          # gs_input.twin.player_state["BLUE"].resources
    /\ gs_input.state.player_state["BLUE"].in_hand
          # gs_input.twin.player_state["BLUE"].in_hand
    /\ gs_output.state.opponents[1].resource_cards_count = 1
    /\ gs_output.state = gs_output.twin

\* C12: two engine states that differ only in an opponent's actual victory
\* points, the public ones being equal, give the same snapshot.
C12_OnlyPublicPoints ==
    (/\ gs_pc = "returned"
     /\ [gs_input.twin.player_state["BLUE"] EXCEPT
            !.VICTORY_POINTS = gs_input.state.player_state["BLUE"].VICTORY_POINTS]
        = gs_input.state.player_state["BLUE"])
    => gs_output.state = gs_output.twin

(***************************************************************************)
(* Properties of ActionParser and HexAxialMapper                           *)
(***************************************************************************)

DistinctMoves ==
    \A i, j \in 1..Len(ap_actions) : i # j => ap_actions[i] # ap_actions[j]

\* C14: after describe_actions(moves) with distinct moves, the reverse
\* lookup is exact: for every index i, find_action_by_description of the
\* description of i returns i.
C14_ReverseLookupExact ==
    DistinctMoves =>
        \A i \in DOMAIN ap_descriptions :
            find_action_by_description(hex_mapper, ap_descriptions[i]) = i

\* the words appear in the description, next to each other
Contains(description, words) ==
    \E k \in 0..(Len(description) - Len(words)) :
        SubSeq(description, k + 1, k + Len(words)) = words

TradeDescribed(description, items) ==
    /\ \A i \in 1..5 :
          items[i] > 0 =>
              Contains(description, <<ToString(items[i]), " ", RESOURCES[i]>>)
    /\ Contains(description, Spaced(<<"for", "1", items[6]>>))
    /\ Contains(description,
                <<ToString(SumSeq(SubSeq(items, 1, 5))) \o ":1">>)

\* C15: the description describe_actions produces for a maritime trade
\* lists each offered resource that has a nonzero count, names the wanted
\* resource as "for 1 <resource>" and gives the ratio as total-given:1; for
\* (4,0,0,0,0,ORE) it contains "4 WOOD", "for 1 ORE" and "4:1".
C15_MaritimeTradeDescribed ==
    \A i \in DOMAIN ap_descriptions :
        /\ ap_actions[i + 1].action_type = "MARITIME_TRADE" =>
              TradeDescribed(ap_descriptions[i], ap_actions[i + 1].value.items)
        /\ ap_actions[i + 1] = TradeWoodForOre =>
              /\ Contains(ap_descriptions[i], <<"4", " ", "WOOD">>)
              /\ Contains(ap_descriptions[i], <<"for", " ", "1", " ", "ORE">>)
              /\ Contains(ap_descriptions[i], <<"4:1">>)

\* C16: after register_tiles on any tile list, no two intersections with
\* distinct ids have the same sorted tile coordinates.
C16_NoDuplicateIntersections ==
    \A a, b \in 1..Len(hex_mapper.intersections) :
        LET first == hex_mapper.intersections[a]
            second == hex_mapper.intersections[b]
        IN  /\ a # b => first.id # second.id
            /\ first.id # second.id =>
                  SortedCoords(first.tiles) # SortedCoords(second.tiles)

C16_Witness ==
    /\ hm_repeats = 1
    /\ Len(tiles_data) = 2
    /\ Len(hex_mapper.tiles) = 2
    /\ Len(hex_mapper.intersections) = 3
    /\ \E k \in 1..Len(hex_mapper.intersections) :
          Len(hex_mapper.intersections[k].tiles) = 2

\* C17: after register_tiles on any tile list, every tile has between 0 and
\* 6 recorded neighbors, and whenever a tile records a coordinate as a
\* neighbor, that coordinate is a tile of the board which records the first
\* tile as a neighbor.
C17_NeighborsSymmetric ==
    \A t \in 1..Len(hex_mapper.tiles) :
        LET tile == hex_mapper.tiles[t]
        IN  /\ Len(tile.neighbors) \in 0..6
            /\ \A d \in 1..Len(tile.neighbors) :
                  /\ HasTile(hex_mapper.tiles, tile.neighbors[d])
                  /\ tile.coord \in
                        Range(hex_mapper.tiles[
                            TileIndex(hex_mapper.tiles, tile.neighbors[d])].neighbors)

\* C18: cube_to_axial(axial_to_cube((q, r))) is (q, r) for all integers q
\* and r, and the cube coordinate axial_to_cube gives has x + y + z = 0.
C18_RoundTrip ==
    /\ conv.cube # <<>> =>
          /\ Len(conv.cube) = 3
          /\ conv.cube[1] + conv.cube[2] + conv.cube[3] = 0
    /\ conv.back # <<>> => conv.back = conv.axial

C18_Witness ==
    /\ conv.axial = <<0 - 5, 3>>
    /\ conv.cube = <<0 - 5, 2, 3>>
    /\ conv.back = <<0 - 5, 3>>

IdsFrom(dict, prefix) ==
    \A k \in 1..Len(dict) : dict[k].id = prefix \o ToString(k - 1)

C19_RepeatStep ==
    (hm_repeats' > 1 /\ tiles_data' = tiles_data) =>
        /\ hex_mapper'.intersections = hex_mapper.intersections
        /\ hex_mapper'.edges = hex_mapper.edges
        /\ hex_mapper'.tiles = hex_mapper.tiles

C19_IdsRestart ==
    hm_repeats >= 1 =>
        /\ IdsFrom(hex_mapper.intersections, "I")
        /\ IdsFrom(hex_mapper.edges, "E")

\* C19: a register_tiles call with the tile list of the call before leaves
\* the intersections and the edges, their ids and the tiles each is attached
\* to, as the first call left them; the ids count from I0 and E0 after
\* every call.
C19_RegisterTwice == [][C19_RepeatStep]_vars /\ []C19_IdsRestart

C19_Witness ==
    /\ hm_repeats = 2
    /\ Len(hex_mapper.tiles) = 2
    /\ Len(hex_mapper.intersections) = 3
    /\ Len(hex_mapper.edges) = 1
    /\ hex_mapper.edges[1].id = "E0"
    /\ hex_mapper.tiles[1].edges = <<"E0">>
    /\ hex_mapper.tiles[1].intersections = <<"I0", "I1">>

\* C20: in all games of one matchup the player at roster position i has the
\* same color, the i-th of RED, BLUE, WHITE, ORANGE; no game of a matchup
\* changes which player has which color.
C20_FixedSeating ==
    \A a, b \in 1..Len(game_results) :
        game_results[a].matchup_index = game_results[b].matchup_index =>
            /\ Len(game_results[a].players) = Len(game_results[b].players)
            /\ \A i \in 1..Len(game_results[a].players) :
                  /\ game_results[a].players[i].name = game_results[b].players[i].name
                  /\ game_results[a].players[i].color = game_results[b].players[i].color
                  /\ game_results[a].players[i].color = Colors[i]

C20_Witness ==
    /\ Len(game_results) = 2
    /\ game_results[1].matchup_index = game_results[2].matchup_index
    /\ game_results[1].game_number # game_results[2].game_number
    /\ game_results[1].error = None
    /\ game_results[2].error # None
    /\ game_results[1].players[2].name \in Range(RosterNames)
    /\ game_results[2].players[2].color = "BLUE"
    /\ game_results[2].players[4].color = "ORANGE"

\* C21: within one decide call the backend is queried one attempt after
\* another and at most max_retries times; no query follows the first attempt
\* that yields an in-range index; retry_count grows by one per failed attempt
\* and by nothing else, so by max_retries when every attempt fails, after
\* which the exception of line 225 takes decide into its fallback branch.
C21_QueryStep ==
    queries' # queries /\ queries' # 0 =>
        /\ llm_pc = "query"
        /\ queries' = queries + 1
        /\ queries' <= max_retries
        /\ attempt = queries
        /\ IF AttemptOutcome(reply', playable_actions).ok
           THEN /\ stats'.retry_count = stats.retry_count
                /\ attempt' = attempt
                /\ llm_pc' = "returned"
                /\ stats'.fallback_count = stats.fallback_count
           ELSE /\ stats'.retry_count = stats.retry_count + 1
                /\ attempt' = attempt + 1
                /\ IF attempt' = max_retries
                   THEN /\ llm_pc' \in {"returned", "raised"}
                        /\ stats'.fallback_count = stats.fallback_count + 1
                        /\ stats'.failed_decisions = stats.failed_decisions + 1
                   ELSE /\ llm_pc' = "query"
                        /\ stats'.fallback_count = stats.fallback_count

C21_RetryCountStep ==
    stats'.retry_count # stats.retry_count /\ resets' = resets =>
        /\ queries' = queries + 1
        /\ ~AttemptOutcome(reply', playable_actions).ok

C21_RetryLoop == [][C21_QueryStep /\ C21_RetryCountStep]_vars

C21_Witness ==
    /\ llm_pc = "returned"
    /\ max_retries = 2
    /\ queries = 2
    /\ attempt = 1
    /\ stats.retry_count = 1
    /\ stats.successful_decisions = 1
    /\ Len(playable_actions) = 2
    /\ selected = playable_actions[2]

\* C22: whenever no decide call is in progress, total_decisions equals
\* successful_decisions + failed_decisions: every decision made since
\* construction or the last reset_state, shortcut ones included, was counted
\* as exactly one of successful or failed.
C22_DecisionsAccounted ==
    llm_pc = "idle" =>
        stats.total_decisions = stats.successful_decisions + stats.failed_decisions

\* C23: reset_state returns the counters exactly as they stood before the
\* call and leaves every counter at zero, so a second reset_state right
\* after returns all zeros; the dictionary it returned reads the same after
\* any later decision.
C23_ResetStep ==
    resets' = resets + 1 =>
        /\ game_stats' = stats
        /\ stats' = InitialStats
        /\ \A k \in DOMAIN stats' \ {"avg_decision_time"} : stats'[k] = 0
        /\ stats'.avg_decision_time.num = 0
        /\ (resets >= 1 /\ stats = InitialStats => game_stats' = InitialStats)

C23_ReturnedDictionaryKept ==
    resets' = resets => game_stats' = game_stats

C23_ResetState == [][C23_ResetStep /\ C23_ReturnedDictionaryKept]_vars

C23_Witness ==
    /\ resets = 2
    /\ calls >= 1
    /\ llm_pc = "idle"
    /\ game_stats = InitialStats
    /\ stats = InitialStats
    /\ game_stats_id # stats_id

(***************************************************************************)
(* Properties of the real-time managers                                    *)
(***************************************************************************)

\* C24: in the real-time managers an exception raised while a game is played
\* does not end the tournament: the game gets a result with winner None and
\* every planned game is played.
C24_RealtimeGameFailureDoesNotAbort ==
    /\ rt_outcome = EngineRaised =>
          /\ rt_pc # "aborted"
          /\ tournament_status # "failed"
          /\ rt_result # None
          /\ rt_result.winner = None
    /\ rt_pc = "done" =>
          Len(rt_game_results) = TotalGames(rt_players, rt_games_per_matchup)

\* The names of the players of a result whose score in the engine's final
\* scores is the maximum.
RtLeaders(result, outcome) ==
    {result.players[j].name : j \in
        {k \in 1..Len(result.players) :
            \A c \in DOMAIN outcome.final_scores :
                outcome.final_scores[c] <= outcome.final_scores[result.players[k].color]}}

\* C25: in the real-time managers a game that ends at the turn cap without a
\* definitive winner gets a non-null winner, the players sharing the maximum
\* final victory points, and the status tracked for a game, once 'tie', stays
\* 'tie' (so it does not end as 'failed').
C25_TurnCapResult ==
    (/\ rt_pc = "played"
     /\ rt_outcome.winner_color = None
     /\ DOMAIN rt_outcome.final_scores # {}) =>
        /\ rt_result.winner # None
        /\ rt_result.winner.name # None
        /\ Range(rt_result.winner.name.items) = RtLeaders(rt_result, rt_outcome)

C25_TieStatusStep ==
    \A g \in DOMAIN current_games :
        current_games[g].status = "tie" =>
            /\ g \in DOMAIN current_games'
            /\ current_games'[g].status = "tie"

C25_TurnCapIsTie == []C25_TurnCapResult /\ [][C25_TieStatusStep]_vars

(***************************************************************************)
(* Properties of the manager's result list and of the rankings             *)
(***************************************************************************)

\* C26: every game result is appended to self.results when its game ends, so
\* that when run_tournament has returned after n games self.results holds
\* their n results, tournament_info.total_games is n and get_leaderboard
\* lists every player who played.
C26_ResultListKept ==
    /\ t_pc \in {"playing", "done"} => self_results = game_results
    /\ t_pc = "done" =>
          /\ tournament_results.tournament_info.total_games = Len(game_results)
          /\ {get_leaderboard(self_results)[i].player :
                 i \in 1..Len(get_leaderboard(self_results))}
             = UNION {{game_results[g].players[j].name :
                          j \in 1..Len(game_results[g].players)} :
                      g \in 1..Len(game_results)}

\* The results of the games that produced a winner or a tie.
DecidedGames(list) == SelectSeq(list, LAMBDA g : g.winner # None)

\* C27: the player statistics run_tournament returns are those of the games
\* that produced a winner or a tie: a failed game (winner None) adds nothing
\* to a player's games_played or wins and leaves every win rate as it is
\* without that game.
C27_FailedGamesNotCounted ==
    t_pc = "done" =>
        LET with == tournament_results.player_stats
            without == _calculate_player_statistics(DecidedGames(game_results))
        IN  \A name \in DOMAIN with :
                IF name \in DOMAIN without
                THEN /\ with[name].games_played = without[name].games_played
                     /\ with[name].wins = without[name].wins
                     /\ with[name].win_rate.num * without[name].win_rate.den
                        = without[name].win_rate.num * with[name].win_rate.den
                ELSE /\ with[name].games_played = 0
                     /\ with[name].wins = 0

\* C28: the position component of calculate_competence_score, before its
\* weight of 0.3, is 1.0 for a player who finished 1st in every game and 0.0
\* for a player who finished 4th in every game, and linear in the average
\* position in between.
C28_PositionComponent ==
    c_pc = "ranked" =>
        \A player \in Range(CompetitionRoster) :
            LET positions == PlayerPositions(AllFinalScores(tournament_results.games), player)
                n == Len(positions)
            IN  n > 0 =>
                    /\ (\A g \in 1..n : positions[g] = 1) =>
                          PositionComponent(positions) = CompetenceUnit
                    /\ (\A g \in 1..n : positions[g] = 4) =>
                          PositionComponent(positions) = 0
                    /\ 3 * n * PositionComponent(positions)
                       = CompetenceUnit * (4 * n - SumSeq(positions))

(***************************************************************************)
(* Further properties of the board mapper and of the reply parser          *)
(***************************************************************************)

\* C29: after register_tiles every registered tile has exactly 6
\* intersection ids, one for each of its corners and no two of them equal,
\* also on the boundary where corners of the tile touch no other tile.
C29_SixCornersPerTile ==
    hm_repeats >= 1 =>
        \A t \in 1..Len(hex_mapper.tiles) :
            LET ids == hex_mapper.tiles[t].intersections
            IN  /\ Len(ids) = 6
                /\ \A i, j \in 1..Len(ids) : i # j => ids[i] # ids[j]

\* C30: when neither the reply nor the repair pass yields JSON and the reply
\* contains a bare integer, _parse_llm_response returns the first integer of
\* the reply as the action index, however the repair pass failed; it raises
\* for want of something to parse only when the reply holds no integer.
C30_FirstIntegerTaken ==
    (/\ parse.result # NotParsed
     /\ ~json_loads(clean_json(parse.response)).ok) =>
        IF Numbers(parse.response) # <<>>
        THEN /\ parse.result.kind = "index"
             /\ parse.result.action_index = IntValue(Numbers(parse.response)[1])
        ELSE /\ parse.result.kind = "raise"

====
